---- MODULE Spec2Model ----
(***************************************************************************)
(* A model of the lzip codec core: the member header and trailer codecs,   *)
(* the LZ decoder (decoder.cc), the streaming decompress() loop (main.cc)  *)
(* and the backward member index (lzip_index.cc).                          *)
(*                                                                         *)
(* Representation of machine integers.  TLC integers are 32-bit signed.    *)
(*  - a 32-bit unsigned CRC is kept as a pair <<hi, lo>> of 16-bit halves; *)
(*  - a 32-bit unsigned distance is kept as its two's-complement pattern   *)
(*    (0xFFFFFFFF is -1) and compared with the unsigned order ULess;       *)
(*  - a 64-bit little-endian field read from a file is exact below Sat     *)
(*    and is Sat for every larger value (every file of the model is far    *)
(*    shorter than Sat / 7090 bytes, so no comparison changes its result); *)
(*  - where the whole 64-bit range matters (SpecSum) an unsigned long long *)
(*    or long long is kept exactly, as four 16-bit limbs.                  *)
(***************************************************************************)
EXTENDS Integers, Sequences, FiniteSets, TLC

VARIABLES
  hdr,          \* SpecDS: a Lzip_header whose dictionary size is set, then read
  trl,          \* SpecTrailer: a Lzip_trailer whose consistency is checked
  sum,          \* SpecSum: a Lzip_index under construction, in 64-bit words
  batch,        \* SpecBatch: the loop over the file names of main and list_files
  io,           \* SpecIO: a readblock or writeblock in progress
  infile,       \* the bytes of the input file
  infd,         \* the input descriptor: STDIN_FILENO or an opened file
  cl_opts,      \* Cl_options
  outfd,        \* the output descriptor; -1 when testing
  outfile,      \* the bytes written to outfd
  rdec,         \* Range_decoder: position in infile, start of the member
  decoder,      \* the LZ_decoder of the member being decoded
  loc,          \* decode_member: rep0 .. rep3 and state
  pc,           \* where decompress() is
  first_member, \* decompress: first_member
  result,       \* decompress: the value of the last decode_member
  retval,       \* decompress: retval
  index,        \* the Lzip_index built from infile
  ev,           \* the last pass of the loop of decode_member
  gh,           \* how infile was made
  log           \* what decompress saw: header outcome, sizes of the members

cvars == <<infile, infd, cl_opts, outfd, outfile, rdec, decoder, loc, pc, first_member,
           result, retval, index, ev, gh, log>>
vars == <<hdr, trl, sum, batch, io, cvars>>

hdrIdle == [pc |-> "idle", sz |-> 0, data5 |-> 0, ok |-> FALSE, got |-> 0]
trlIdle == [pc |-> "idle", data |-> <<>>, res |-> FALSE]

-----------------------------------------------------------------------------
(* Arithmetic helpers                                                      *)

Min(a, b) == IF a < b THEN a ELSE b
Max(a, b) == IF a < b THEN b ELSE a

RECURSIVE Pow2(_)
Pow2(n) == IF n = 0 THEN 1 ELSE 2 * Pow2(n - 1)

Sat == 256 * 256 * 256

-----------------------------------------------------------------------------
(* lzip.h: constants                                                       *)

min_dictionary_bits == 12
min_dictionary_size == Pow2(min_dictionary_bits)
max_dictionary_bits == 29
max_dictionary_size == Pow2(max_dictionary_bits)
min_member_size == 36
Lzip_header_size == 6
Lzip_trailer_size == 20
lzip_magic == <<76, 90, 73, 80>>          \* "LZIP"

-----------------------------------------------------------------------------
(* lzip.h: dictionary size coding                                          *)

isvalid_ds(dictionary_size) ==
  dictionary_size >= min_dictionary_size /\ dictionary_size <= max_dictionary_size

RECURSIVE real_bits(_)
real_bits(value) == IF value > 0 THEN 1 + real_bits(value \div 2) ELSE 0

\* unsigned Lzip_header::dictionary_size() const, on the coded byte data[5]
get_dictionary_size(data5) ==
  LET sz == Pow2(data5 % 32)
  IN  IF sz > min_dictionary_size
      THEN sz - (sz \div 16) * ((data5 \div 32) % 8)
      ELSE sz

\* the loop 'for( i = 7; i >= 1; --i ) if( base_size - i * fraction >= sz )
\*   { data[5] |= i << 5; break; }' started at i
RECURSIVE ds_fraction_loop(_, _, _, _)
ds_fraction_loop(i, base_size, fraction, sz) ==
  IF i >= 1
  THEN IF base_size - (i * fraction) >= sz
       THEN i
       ELSE ds_fraction_loop(i - 1, base_size, fraction, sz)
  ELSE 0

ds_base_bits_off_by_one(sz) == real_bits(sz)

\* data[5] = real_bits( sz - 1 )
ds_base_bits(sz) == real_bits(sz - 1)

\* bool Lzip_header::dictionary_size( const unsigned sz ): the pair
\* <<return value, data[5]>>; data[5] keeps its old value old5 on failure
set_dictionary_size(sz, old5) ==
  IF ~isvalid_ds(sz) THEN <<FALSE, old5>>
  ELSE LET bits == ds_base_bits(sz)
       IN  IF sz > min_dictionary_size
           THEN LET base_size == Pow2(bits)
                    fraction == base_size \div 16
                IN  <<TRUE, bits + 32 * ds_fraction_loop(7, base_size, fraction, sz)>>
           ELSE <<TRUE, bits>>

-----------------------------------------------------------------------------
(* lzip.h: the 20-byte trailer.  data[i] of the source is data[i + 1] here *)

\* 'tmp <<= 8; tmp += data[i]' on a 64-bit accumulator, saturating at Sat
le_step(tmp, byte) == IF tmp >= 65536 THEN Sat ELSE tmp * 256 + byte

\* for( i = hi; i >= lo; --i ) { tmp <<= 8; tmp += data[i]; }  entered
\* with the accumulator tmp and the index i
RECURSIVE le_read(_, _, _, _)
le_read(data, tmp, i, lo) ==
  IF i < lo THEN tmp ELSE le_read(data, le_step(tmp, data[i + 1]), i - 1, lo)

\* for( i = lo; i <= hi; ++i ) { data[i] = (uint8_t)sz; sz >>= 8; }  as the
\* sequence of the bytes written
RECURSIVE le_write(_, _)
le_write(sz, n) ==
  IF n = 0 THEN <<>> ELSE <<sz % 256>> \o le_write(sz \div 256, n - 1)

\* unsigned Lzip_trailer::data_crc() const, as the pair <<hi, lo>>
data_crc(data) == <<data[4] * 256 + data[3], data[2] * 256 + data[1]>>

\* void Lzip_trailer::data_crc( unsigned crc )
put_data_crc(crc) ==
  <<crc[2] % 256, crc[2] \div 256, crc[1] % 256, crc[1] \div 256>>

\* unsigned long long Lzip_trailer::data_size() const
data_size(data) == le_read(data, 0, 11, 4)

\* unsigned long long Lzip_trailer::member_size() const
member_size(data) == le_read(data, 0, 19, 12)

\* the trailer written by data_crc( crc ), data_size( dsize ), member_size( msize )
make_trailer(crc, dsize, msize) ==
  put_data_crc(crc) \o le_write(dsize, 8) \o le_write(msize, 8)

mlimit_floor(dsize) == (9 * dsize) \div 8 + min_member_size

\* const unsigned long long mlimit = ( 9 * dsize + 7 ) / 8 + min_member_size
mlimit_of(dsize) == (9 * dsize + 7) \div 8 + min_member_size

\* bool Lzip_trailer::check_consistency() const
check_consistency(data) ==
  LET crc == data_crc(data)
      dsize == data_size(data)
      msize == member_size(data)
      mlimit == mlimit_of(dsize)
      dlimit == 7090 * (msize - 26) - 1
  IN  IF (crc = <<0, 0>>) # (dsize = 0) THEN FALSE
      ELSE IF msize < min_member_size THEN FALSE
      ELSE IF mlimit > dsize /\ msize > mlimit THEN FALSE
      ELSE IF dlimit > msize /\ dsize > dlimit THEN FALSE
      ELSE TRUE

-----------------------------------------------------------------------------
(* lzip.h: CRC32, on pairs <<hi, lo>> of 16-bit halves                     *)

RECURSIVE XorBits(_, _, _)
XorBits(a, b, n) ==
  IF n = 0 THEN 0
  ELSE ((a + b) % 2) + 2 * XorBits(a \div 2, b \div 2, n - 1)

Xor32(a, b) == <<XorBits(a[1], b[1], 16), XorBits(a[2], b[2], 16)>>
Shr1(c) == <<c[1] \div 2, c[2] \div 2 + (c[1] % 2) * 32768>>
Shr8(c) == <<c[1] \div 256, c[2] \div 256 + (c[1] % 256) * 256>>

crc_poly == <<60856, 33568>>              \* 0xEDB88320U
crc_ones == <<65535, 65535>>              \* 0xFFFFFFFFU

\* for( k = 0; k < 8; ++k ) { if( c & 1 ) c = 0xEDB88320U ^ ( c >> 1 );
\*   else c >>= 1; }
RECURSIVE crc_table_entry(_, _)
crc_table_entry(c, k) ==
  IF k = 0 THEN c
  ELSE crc_table_entry(IF c[2] % 2 = 1 THEN Xor32(crc_poly, Shr1(c)) ELSE Shr1(c),
                       k - 1)

\* CRC32::data, the table built by the constructor
crc32_data == [n \in 0 .. 255 |-> crc_table_entry(<<0, n>>, 8)]

\* void CRC32::update_byte( uint32_t & crc, const uint8_t byte ) const
update_byte(crc, byte) ==
  Xor32(crc32_data[XorBits(crc[2] % 256, byte, 8)], Shr8(crc))

\* void CRC32::update_buf( crc, buffer, size ), on the sequence of the bytes
RECURSIVE update_buf(_, _)
update_buf(crc, bytes) ==
  IF bytes = <<>> THEN crc
  ELSE update_buf(update_byte(crc, Head(bytes)), Tail(bytes))

\* The CRC32 of a whole byte string, as the encoder stores it
crc_of(bytes) == Xor32(update_buf(crc_ones, bytes), crc_ones)

-----------------------------------------------------------------------------
(* lzip.h: the State machine of the last symbols                          *)

state_next == <<0, 0, 0, 0, 1, 2, 3, 4, 5, 6, 4, 5>>
set_char(st) == state_next[st + 1]
is_char(st) == st < 7
is_char_set_char_after(st) == is_char(set_char(st))
\* bool is_char_set_char() { set_char(); return st < 4; }
is_char_set_char(st) == set_char(st) < 4
set_match(st) == IF st < 7 THEN 7 ELSE 10
set_rep(st) == IF st < 7 THEN 8 ELSE 11
set_short_rep(st) == IF st < 7 THEN 9 ELSE 11

min_match_len == 2
start_dis_model == 4
end_dis_model == 14
dis_align_bits == 4

-----------------------------------------------------------------------------
(* 32-bit unsigned values as two's-complement patterns                     *)

\* a < b in the unsigned order
ULess(a, b) ==
  IF a >= 0 /\ b >= 0 THEN a < b
  ELSE IF a < 0 /\ b < 0 THEN a < b
  ELSE b < 0

\* ( 2 | ( slot & 1 ) ) << direct_bits  as a 32-bit pattern
dis_base(dis_slot, direct_bits) ==
  LET top == 2 + (dis_slot % 2)
  IN  IF direct_bits < 30 THEN top * Pow2(direct_bits)
      ELSE (top - 4) * Pow2(30)           \* 0x80000000, 0xC0000000

marker_distance == -1                     \* 0xFFFFFFFFU

-----------------------------------------------------------------------------
(* The range decoder, abstracted.  The arithmetic coder itself is not      *)
(* modelled: a member's LZMA stream is 5 bytes read by load() (the marking *)
(* byte and 4 bytes of code), then one byte per coded symbol, a marker     *)
(* being followed by the 4 bytes that normalize() and the coder's flush    *)
(* account for.  An empty member is then 6 + 5 + 5 + 20 = 36 bytes and a   *)
(* member holding one literal 37, as in the real format.  A symbol byte    *)
(* below 128 stands for the decisions of a literal with that value, a byte *)
(* 128 + j for the decisions SymTable[j + 1].                              *)

NoTok == [match |-> 0, sym |-> 0, rep |-> 0, r0 |-> 0, b4 |-> 0, b5 |-> 0,
          len |-> 0, slot |-> 0, rev |-> 0, direct |-> 0, align |-> 0]
LitTok(b) == [NoTok EXCEPT !.sym = b]
ShortRepTok == [NoTok EXCEPT !.match = 1, !.rep = 1]
RepTok(which, len) ==
  [NoTok EXCEPT !.match = 1, !.rep = 1, !.len = len,
                !.r0 = IF which = 0 THEN 0 ELSE 1,
                !.b4 = IF which = 1 THEN 0 ELSE 1,
                !.b5 = IF which = 3 THEN 1 ELSE 0]
MatchTok(len, slot, rev, direct, align) ==
  [NoTok EXCEPT !.match = 1, !.len = len, !.slot = slot, !.rev = rev,
                !.direct = direct, !.align = align]

SymTable ==
  << ShortRepTok,                              \* 128
     RepTok(0, 2), RepTok(0, 3),               \* 129, 130
     RepTok(1, 2), RepTok(2, 2), RepTok(3, 2), \* 131, 132, 133
     MatchTok(2, 0, 0, 0, 0),                  \* 134: len 2, distance 0
     MatchTok(3, 0, 0, 0, 0),                  \* 135: len 3, distance 0
     MatchTok(2, 1, 0, 0, 0),                  \* 136: len 2, distance 1
     MatchTok(3, 1, 0, 0, 0),                  \* 137: len 3, distance 1
     MatchTok(2, 2, 0, 0, 0),                  \* 138: len 2, distance 2
     MatchTok(2, 4, 1, 0, 0),                  \* 139: len 2, distance 5
     MatchTok(2, 14, 0, 1, 3),                 \* 140: len 2, distance 147
     MatchTok(2, 63, 0, Pow2(26) - 1, 15),     \* 141: End Of Stream marker
     MatchTok(3, 63, 0, Pow2(26) - 1, 15),     \* 142: Sync Flush marker
     MatchTok(4, 63, 0, Pow2(26) - 1, 15),     \* 143: unsupported marker
     MatchTok(2, 63, 0, Pow2(26) - 1, 14) >>   \* 144: distance 0xFFFFFFFE

EosByte == 141
SyncByte == 142

Tok(byte) ==
  IF byte < 128 THEN LitTok(byte)
  ELSE SymTable[((byte - 128) % Len(SymTable)) + 1]

\* bool Range_decoder::finished()
rdec_finished(file, r) == r.pos >= Len(file)

\* uint8_t Range_decoder::get_byte(): 0xFF once the input is exhausted
rdec_peek_byte(file, r) == IF rdec_finished(file, r) THEN 255 ELSE file[r.pos + 1]
rdec_skip(file, r, n) == [r EXCEPT !.pos = Min(r.pos + n, Len(file))]

\* unsigned long long Range_decoder::member_position() const
member_position(r) == r.pos - r.mstart

\* void Range_decoder::reset_member_position()
reset_member_position(r) == [r EXCEPT !.mstart = r.pos]

\* int Range_decoder::read_data( outbuf, size ): the bytes read
read_data(file, r, size) == SubSeq(file, r.pos + 1, Min(r.pos + size, Len(file)))

\* bool Range_decoder::load( ignore_marking ): <<return value, decoder after>>
rdec_load(file, r, ignore_marking) ==
  IF rdec_peek_byte(file, r) # 0 /\ ~ignore_marking
  THEN <<FALSE, rdec_skip(file, r, 1)>>
  ELSE <<TRUE, rdec_skip(file, r, 5)>>

-----------------------------------------------------------------------------
(* decoder.h / decoder.cc: LZ_decoder.  s is the pair [d |-> the decoder   *)
(* object, o |-> the bytes written to outfd so far].                       *)

Uninit == 256       \* the value of a dictionary byte that was never written

\* LZ_decoder::LZ_decoder( rde, dict_size, ofd )
new_decoder(dict_size, ofd) ==
  [buffer |-> ((dict_size - 1) :> 0), dictionary_size |-> dict_size, pos |-> 0,
   stream_pos |-> 0, partial_data_pos |-> 0, crc_ |-> crc_ones,
   pos_wrapped |-> FALSE, outfd |-> ofd]

buf_get(d, i) == IF i \in DOMAIN d.buffer THEN d.buffer[i] ELSE Uninit

\* unsigned long long LZ_decoder::data_position() const
data_position(d) == d.partial_data_pos + d.pos

\* unsigned LZ_decoder::crc() const
decoder_crc(d) == Xor32(d.crc_, crc_ones)

\* uint8_t LZ_decoder::peek_prev() const
peek_prev(d) == buf_get(d, (IF d.pos > 0 THEN d.pos ELSE d.dictionary_size) - 1)

\* uint8_t LZ_decoder::peek( const unsigned distance ) const
peek(d, distance) ==
  buf_get(d, (IF ULess(distance, d.pos) THEN 0 ELSE d.dictionary_size)
             + d.pos - distance - 1)

flush_data_unwritten(s) ==
  LET d == s.d
  IN  IF d.pos > d.stream_pos
      THEN LET bytes == [k \in 1 .. (d.pos - d.stream_pos) |->
                           buf_get(d, d.stream_pos + k - 1)]
               d1 == [d EXCEPT !.crc_ = update_buf(d.crc_, bytes)]
           IN  [d |-> [d1 EXCEPT !.stream_pos = d1.pos], o |-> s.o]
      ELSE s

\* void LZ_decoder::flush_data()
flush_data(s) ==
  LET d == s.d
  IN  IF d.pos > d.stream_pos
      THEN LET bytes == [k \in 1 .. (d.pos - d.stream_pos) |->
                           buf_get(d, d.stream_pos + k - 1)]
               d1 == [d EXCEPT !.crc_ = update_buf(d.crc_, bytes)]
               d2 == IF d1.pos >= d1.dictionary_size
                     THEN [d1 EXCEPT !.partial_data_pos = d1.partial_data_pos + d1.pos,
                                     !.pos = 0, !.pos_wrapped = TRUE]
                     ELSE d1
           IN  [d |-> [d2 EXCEPT !.stream_pos = d2.pos],
                o |-> IF d.outfd >= 0 THEN s.o \o bytes ELSE s.o]
      ELSE s

\* void LZ_decoder::put_byte( const uint8_t b )
put_byte(s, b) ==
  LET d1 == [s.d EXCEPT !.buffer = (s.d.pos :> b) @@ s.d.buffer,
                        !.pos = s.d.pos + 1]
      s1 == [s EXCEPT !.d = d1]
  IN  IF d1.pos >= d1.dictionary_size THEN flush_data(s1) ELSE s1

\* the loop of copy_block: 'buffer[pos] = buffer[i]; if( ++pos >=
\* dictionary_size ) flush_data(); if( ++i >= dictionary_size ) i = 0;'
RECURSIVE copy_loop(_, _, _)
copy_loop(s, i, len) ==
  IF len = 0 THEN s
  ELSE copy_loop(put_byte(s, buf_get(s.d, i)),
                 IF i + 1 >= s.d.dictionary_size THEN 0 ELSE i + 1,
                 len - 1)

\* void LZ_decoder::copy_block( const unsigned distance, unsigned len )
copy_block(s, distance, len) ==
  LET d == s.d
      i == IF ULess(distance, d.pos) THEN d.pos - distance - 1
           ELSE d.pos - distance - 1 + d.dictionary_size
  IN  copy_loop(s, i, len)

\* the trailer as check_trailer sees it: the bytes read, zero-padded
padded_trailer(file, r) ==
  LET got == read_data(file, r, Lzip_trailer_size)
  IN  got \o [k \in 1 .. (Lzip_trailer_size - Len(got)) |-> 0]

\* a check_trailer that forgets the member size
check_trailer_no_msize(file, d, r, ignore_empty) ==
  LET size == Len(read_data(file, r, Lzip_trailer_size))
      trailer == padded_trailer(file, r)
      r1 == rdec_skip(file, r, size)
      error == \/ size < Lzip_trailer_size
               \/ data_crc(trailer) # decoder_crc(d)
               \/ data_size(trailer) # data_position(d)
  IN  [r |-> r1,
       ret |-> IF error THEN 3
               ELSE IF ~ignore_empty /\ data_position(d) = 0 THEN 5 ELSE 0]

\* int LZ_decoder::check_trailer( pp, ignore_empty ) const
check_trailer(file, d, r, ignore_empty) ==
  LET size == Len(read_data(file, r, Lzip_trailer_size))
      trailer == padded_trailer(file, r)
      r1 == rdec_skip(file, r, size)
      error == \/ size < Lzip_trailer_size
               \/ data_crc(trailer) # decoder_crc(d)
               \/ data_size(trailer) # data_position(d)
               \/ member_size(trailer) # member_position(r1)
  IN  [r |-> r1,
       ret |-> IF error THEN 3
               ELSE IF ~ignore_empty /\ data_position(d) = 0 THEN 5 ELSE 0]

\* the distance of a fresh match, decoder.cc lines 236-249
match_distance(tok) ==
  IF tok.slot < start_dis_model THEN tok.slot
  ELSE LET direct_bits == (tok.slot \div 2) - 1
           base == dis_base(tok.slot, direct_bits)
       IN  IF tok.slot < end_dis_model
           THEN base + (tok.rev % Pow2(direct_bits))
           ELSE base + (tok.direct % Pow2(direct_bits - dis_align_bits))
                         * Pow2(dis_align_bits)
                     + (tok.align % Pow2(dis_align_bits))

\* only the high-range branch can produce a marker, decoder.cc lines 242-250
is_marker(tok) ==
  /\ tok.slot >= start_dis_model
  /\ tok.slot >= end_dis_model
  /\ match_distance(tok) = marker_distance

\* Range_decoder::normalize() after a marker: the bytes the coder flushed
rdec_normalize(file, r) == rdec_skip(file, r, 4)

NoEv == [kind |-> "none", len |-> 0, rep0 |-> 0, pos0 |-> 0, wrapped0 |-> FALSE,
         dpos0 |-> 0, loc0 |-> <<>>, tpos |-> 0]

\* what one pass of the loop of decode_member leaves: the dictionary and the
\* output (s), rep0..rep3 and the state (l), the range decoder (r), the value
\* returned (ret, -1 while the loop goes on) and the record of the pass (ev)
Pass(s, l, r, ret, e) == [s |-> s, l |-> l, r |-> r, ret |-> ret, ev |-> e]

\* a short-rep without its 'continue': it goes on as a repeated match
decode_rep_fallthrough(file, s, l, r1, tok, e) ==
  LET s0 == IF tok.r0 = 0 /\ tok.b4 = 0 THEN put_byte(s, peek(s.d, l.rep0)) ELSE s
      l1 == IF tok.r0 = 0 THEN l
            ELSE IF tok.b4 = 0
            THEN [l EXCEPT !.rep0 = l.rep1, !.rep1 = l.rep0]
            ELSE IF tok.b5 = 0
            THEN [l EXCEPT !.rep0 = l.rep2, !.rep1 = l.rep0, !.rep2 = l.rep1]
            ELSE [l EXCEPT !.rep0 = l.rep3, !.rep1 = l.rep0, !.rep2 = l.rep1,
                           !.rep3 = l.rep2]
      l2 == [l1 EXCEPT !.st = set_rep(l.st)]
      len == IF tok.len = 0 THEN min_match_len ELSE tok.len
  IN  Pass(copy_block(s0, l2.rep0, len), l2, r1, -1,
           [e EXCEPT !.kind = "rep", !.len = len, !.rep0 = l2.rep0])

\* the repeated-match branch, decoder.cc lines 207-232 and 272
decode_rep(file, s, l, r1, tok, e) ==
  IF tok.r0 = 0 /\ tok.b4 = 0
  THEN Pass(put_byte(s, peek(s.d, l.rep0)),
            [l EXCEPT !.st = set_short_rep(l.st)], r1, -1,
            [e EXCEPT !.kind = "shortrep", !.len = 1, !.rep0 = l.rep0])
  ELSE LET l1 == IF tok.r0 = 0 THEN l
                 ELSE IF tok.b4 = 0
                 THEN [l EXCEPT !.rep0 = l.rep1, !.rep1 = l.rep0]
                 ELSE IF tok.b5 = 0
                 THEN [l EXCEPT !.rep0 = l.rep2, !.rep1 = l.rep0, !.rep2 = l.rep1]
                 ELSE [l EXCEPT !.rep0 = l.rep3, !.rep1 = l.rep0, !.rep2 = l.rep1,
                                !.rep3 = l.rep2]
           l2 == [l1 EXCEPT !.st = set_rep(l.st)]
       IN  Pass(copy_block(s, l2.rep0, tok.len), l2, r1, -1,
                [e EXCEPT !.kind = "rep", !.len = tok.len, !.rep0 = l2.rep0])

\* a marker handling that takes every marker but End Of Stream for a flush
decode_marker_lenient(file, s, l, r1, tok, e, cl) ==
  LET r2 == rdec_normalize(file, r1)
      s1 == flush_data(s)
      em == [e EXCEPT !.kind = "marker", !.len = tok.len,
                      !.rep0 = match_distance(tok), !.tpos = r2.pos]
  IN  IF tok.len = min_match_len
      THEN LET ct == check_trailer(file, s1.d, r2, cl.ignore_empty)
           IN  Pass(s1, l, ct.r, ct.ret, em)
      ELSE Pass(s1, l, rdec_load(file, r2, TRUE)[2], -1, em)

\* 'marker found', decoder.cc lines 250-264
decode_marker(file, s, l, r1, tok, e, cl) ==
  LET r2 == rdec_normalize(file, r1)
      s1 == flush_data(s)
      em == [e EXCEPT !.kind = "marker", !.len = tok.len,
                      !.rep0 = match_distance(tok), !.tpos = r2.pos]
  IN  IF tok.len = min_match_len
      THEN LET ct == check_trailer(file, s1.d, r2, cl.ignore_empty)
           IN  Pass(s1, l, ct.r, ct.ret, em)
      ELSE IF tok.len = min_match_len + 1
      THEN Pass(s1, l, rdec_load(file, r2, TRUE)[2], -1, em)
      ELSE Pass(s1, l, r2, 4, em)

\* the fresh match branch, decoder.cc lines 233-272
decode_match(file, s, l, r1, tok, e, cl) ==
  LET distance == match_distance(tok)
  IN  IF is_marker(tok)
      THEN decode_marker(file, s, l, r1, tok, e, cl)
      ELSE LET l1 == [l EXCEPT !.rep3 = l.rep2, !.rep2 = l.rep1, !.rep1 = l.rep0,
                               !.rep0 = distance, !.st = set_match(l.st)]
           IN  IF \/ ~ULess(l1.rep0, s.d.dictionary_size)
                  \/ (~ULess(l1.rep0, s.d.pos) /\ ~s.d.pos_wrapped)
               THEN Pass(flush_data(s), l1, r1, 1,
                         [e EXCEPT !.kind = "error", !.len = tok.len,
                                   !.rep0 = distance])
               ELSE Pass(copy_block(s, l1.rep0, tok.len), l1, r1, -1,
                         [e EXCEPT !.kind = "match", !.len = tok.len,
                                   !.rep0 = distance])

\* a decode_member that returns at the end of the input without flushing
decode_pass_eof_unflushed(file, s, l, r, cl) ==
  LET e == [NoEv EXCEPT !.pos0 = s.d.pos, !.wrapped0 = s.d.pos_wrapped,
                        !.dpos0 = data_position(s.d), !.loc0 = l]
  IN  IF rdec_finished(file, r)
      THEN Pass(s, l, r, 2, [e EXCEPT !.kind = "eof"])
      ELSE LET tok == Tok(rdec_peek_byte(file, r))
               r1 == rdec_skip(file, r, 1)
           IN  IF tok.match = 0
               THEN IF is_char_set_char(l.st)
                    THEN Pass(put_byte(s, tok.sym),
                              [l EXCEPT !.st = set_char(l.st)], r1, -1,
                              [e EXCEPT !.kind = "lit", !.len = 1])
                    ELSE Pass(put_byte(s, tok.sym),
                              [l EXCEPT !.st = set_char(l.st)], r1, -1,
                              [e EXCEPT !.kind = "mlit", !.len = 1,
                                        !.rep0 = l.rep0])
               ELSE IF tok.rep # 0
               THEN decode_rep(file, s, l, r1, tok, e)
               ELSE decode_match(file, s, l, r1, tok, e, cl)

\* one pass of 'while( !rdec.finished() )' of decode_member, or its exit
decode_pass(file, s, l, r, cl) ==
  LET e == [NoEv EXCEPT !.pos0 = s.d.pos, !.wrapped0 = s.d.pos_wrapped,
                        !.dpos0 = data_position(s.d), !.loc0 = l]
  IN  IF rdec_finished(file, r)
      THEN Pass(flush_data(s), l, r, 2, [e EXCEPT !.kind = "eof"])
      ELSE LET tok == Tok(rdec_peek_byte(file, r))
               r1 == rdec_skip(file, r, 1)
           IN  IF tok.match = 0
               THEN IF is_char_set_char(l.st)
                    THEN Pass(put_byte(s, tok.sym),
                              [l EXCEPT !.st = set_char(l.st)], r1, -1,
                              [e EXCEPT !.kind = "lit", !.len = 1])
                    ELSE Pass(put_byte(s, tok.sym),
                              [l EXCEPT !.st = set_char(l.st)], r1, -1,
                              [e EXCEPT !.kind = "mlit", !.len = 1,
                                        !.rep0 = l.rep0])
               ELSE IF tok.rep # 0
               THEN decode_rep(file, s, l, r1, tok, e)
               ELSE decode_match(file, s, l, r1, tok, e, cl)

-----------------------------------------------------------------------------
(* lzip.h: Lzip_header checks, on the sequence of the header bytes         *)

\* bool Lzip_header::check_magic() const
check_magic(h) == \A i \in 1 .. 4 : h[i] = lzip_magic[i]

check_prefix_whole_magic(h, sz) ==
  /\ sz >= 4
  /\ \A i \in 1 .. 4 : h[i] = lzip_magic[i]

\* bool Lzip_header::check_prefix( const int sz ) const
check_prefix(h, sz) ==
  /\ \A i \in 1 .. Min(sz, 4) : h[i] = lzip_magic[i]
  /\ sz > 0

\* bool Lzip_header::check_corrupt() const
check_corrupt(h) ==
  LET matches == Cardinality({i \in 1 .. 4 : h[i] = lzip_magic[i]})
  IN  matches > 1 /\ matches < 4

\* bool Lzip_header::check_version() const
check_version(h) == h[5] = 1

\* bool Lzip_header::check() const
header_check(h) ==
  check_magic(h) /\ check_version(h) /\ isvalid_ds(get_dictionary_size(h[6]))

-----------------------------------------------------------------------------
(* lzip_index.h, lzip_index.cc: Lzip_index                                 *)

block_size == 16384
buffer_size == block_size + Lzip_trailer_size - 1 + Lzip_header_size

\* int seek_read( fd, buf, size, pos ): the bytes read
seek_read(file, size, pos) == SubSeq(file, pos + 1, Min(pos + size, Len(file)))

\* Lzip_index::Member::Member( dpos, dsize, mpos, msize, dict_size )
Member(dpos, dsize, mpos, msize, dict_size) ==
  [dblock |-> [pos |-> dpos, size |-> dsize],
   mblock |-> [pos |-> mpos, size |-> msize],
   dictionary_size |-> dict_size]

\* long long Block::end() const
Block_end(b) == b.pos + b.size

\* the object right after the initializer list of the constructor
new_index == [retval_ |-> 0, dictionary_size_ |-> 0, member_vector |-> <<>>]

\* a push that takes the dictionary size of the member as the largest
push_member_last_dict(x, trailer, header, pos) ==
  LET dictionary_size == get_dictionary_size(header[6])
  IN  [x EXCEPT !.dictionary_size_ = dictionary_size,
                !.member_vector =
                   Append(x.member_vector,
                          Member(0, data_size(trailer), pos, member_size(trailer),
                                 dictionary_size))]

\* 'good member': note the dictionary size and push the member
push_member(x, trailer, header, pos) ==
  LET dictionary_size == get_dictionary_size(header[6])
  IN  [x EXCEPT !.dictionary_size_ = Max(x.dictionary_size_, dictionary_size),
                !.member_vector =
                   Append(x.member_vector,
                          Member(0, data_size(trailer), pos, member_size(trailer),
                                 dictionary_size))]

\* while( i > trailer.size && buffer[i-9] == 0 ) --i;
RECURSIVE skip_zeros(_, _, _)
skip_zeros(file, ipos, i) ==
  IF i > Lzip_trailer_size /\ file[ipos + i - 9 + 1] = 0
  THEN skip_zeros(file, ipos, i - 1)
  ELSE i

SkipResult(ok, x, pos) == [ok |-> ok, x |-> x, pos |-> pos]

\* The loops of skip_trailing_data.  buffer[j] is file[ipos + j]: each pass
\* reads the block at ipos and keeps the head of the previous block behind it.
RECURSIVE skip_scan(_, _, _, _, _, _, _, _)
skip_scan(file, cl, x, pos, ipos, bsize, search_size, i) ==
  IF i < Lzip_trailer_size
  THEN IF ipos = 0
       THEN SkipResult(FALSE, [x EXCEPT !.retval_ = 2], pos)
       ELSE IF Len(seek_read(file, block_size, ipos - block_size)) # block_size
       THEN SkipResult(FALSE, [x EXCEPT !.retval_ = 1], pos)
       ELSE skip_scan(file, cl, x, pos, ipos - block_size, buffer_size,
                      buffer_size - Lzip_header_size,
                      buffer_size - Lzip_header_size)
  ELSE IF file[ipos + i] > ((ipos + search_size) \div Pow2(28)) \div Pow2(28)
  THEN skip_scan(file, cl, x, pos, ipos, bsize, search_size, i - 1)
  ELSE
    LET trailer == SubSeq(file, ipos + i - Lzip_trailer_size + 1, ipos + i)
        msize == member_size(trailer)
        header == seek_read(file, Lzip_header_size, ipos + i - msize)
        avail == bsize - i
        header2 == SubSeq(file, ipos + i + 1, ipos + i + Min(avail, Lzip_header_size))
        full_h2 == avail >= Lzip_header_size
    IN  IF msize = 0
        THEN skip_scan(file, cl, x, pos, ipos, bsize, search_size,
                       skip_zeros(file, ipos, i) - 1)
        ELSE IF msize > ipos + i \/ ~check_consistency(trailer)
        THEN skip_scan(file, cl, x, pos, ipos, bsize, search_size, i - 1)
        ELSE IF Len(header) # Lzip_header_size
        THEN SkipResult(FALSE, [x EXCEPT !.retval_ = 1], pos)
        ELSE IF ~header_check(header)
        THEN skip_scan(file, cl, x, pos, ipos, bsize, search_size, i - 1)
        ELSE IF check_prefix(header2, avail)
        THEN SkipResult(FALSE, [x EXCEPT !.retval_ = 2], pos)
        ELSE IF ~cl.loose_trailing /\ full_h2 /\ check_corrupt(header2)
        THEN SkipResult(FALSE, [x EXCEPT !.retval_ = 2], pos)
        ELSE IF ~cl.ignore_trailing
        THEN SkipResult(FALSE, [x EXCEPT !.retval_ = 2], pos)
        ELSE SkipResult(TRUE, push_member(x, trailer, header, ipos + i - msize),
                        ipos + i - msize)

\* bool Lzip_index::skip_trailing_data( fd, pos, cl_opts )
skip_trailing_data(file, cl, x, pos) ==
  IF pos < min_member_size THEN SkipResult(FALSE, x, pos)
  ELSE LET b0 == pos % block_size
           bsize == IF b0 <= buffer_size - block_size THEN b0 + block_size ELSE b0
       IN  skip_scan(file, cl, x, pos, pos - bsize, bsize, bsize, bsize)

\* bool Lzip_index::check_header( const Lzip_header & header )
check_header(h) == header_check(h)

LoopResult(x, pos, returned) == [x |-> x, pos |-> pos, returned |-> returned]

\* 'while( pos >= min_member_size )' of the constructor; returned tells that
\* the constructor returned from inside the loop
RECURSIVE index_loop(_, _, _, _)
index_loop(file, cl, x, pos) ==
  IF pos < min_member_size THEN LoopResult(x, pos, FALSE)
  ELSE
    LET trailer == seek_read(file, Lzip_trailer_size, pos - Lzip_trailer_size)
        msize == member_size(trailer)
        header == seek_read(file, Lzip_header_size, pos - msize)
        sk == skip_trailing_data(file, cl, x, pos)
        skipped == IF sk.ok THEN index_loop(file, cl, sk.x, sk.pos)
                   ELSE LoopResult(sk.x, pos, TRUE)
    IN  IF msize > pos \/ ~check_consistency(trailer)
        THEN IF x.member_vector = <<>> THEN skipped
             ELSE LoopResult([x EXCEPT !.retval_ = 2], pos, FALSE)
        ELSE IF Len(header) # Lzip_header_size
        THEN LoopResult([x EXCEPT !.retval_ = 1], pos, FALSE)
        ELSE IF ~header_check(header)
        THEN IF x.member_vector = <<>> THEN skipped
             ELSE LoopResult([x EXCEPT !.retval_ = 2], pos, FALSE)
        ELSE index_loop(file, cl, push_member(x, trailer, header, pos - msize),
                        pos - msize)

vector_unreversed(mv) == mv

\* std::reverse( member_vector.begin(), member_vector.end() )
vector_reverse(mv) == [k \in 1 .. Len(mv) |-> mv[Len(mv) + 1 - k]]

\* for( i = 0; ; ++i ) { end = member_vector[i].dblock.end(); ...
\*   if( i + 1 >= size ) break; member_vector[i+1].dblock.pos( end ); }
RECURSIVE fill_dblock_pos(_, _)
fill_dblock_pos(mv, i) ==
  IF i + 1 >= Len(mv) THEN mv
  ELSE fill_dblock_pos(
         [mv EXCEPT ![i + 2].dblock.pos = Block_end(mv[i + 1].dblock)], i + 1)

\* Lzip_index::Lzip_index( const int infd, const Cl_options & cl_opts )
Lzip_index(file, cl) ==
  LET insize == Len(file)
      failed == [new_index EXCEPT !.retval_ = 2]
      lr == index_loop(file, cl, new_index, insize)
  IN  IF insize >= Lzip_header_size
         /\ ~check_header(seek_read(file, Lzip_header_size, 0))
      THEN failed
      ELSE IF insize < min_member_size THEN failed
      ELSE IF lr.returned THEN lr.x
      ELSE IF lr.pos # 0 \/ lr.x.member_vector = <<>> \/ lr.x.retval_ # 0
      THEN [lr.x EXCEPT !.member_vector = <<>>,
                        !.retval_ = IF lr.x.retval_ = 0 THEN 2 ELSE lr.x.retval_]
      ELSE [lr.x EXCEPT !.member_vector =
                          fill_dblock_pos(vector_reverse(lr.x.member_vector), 0)]

\* long long Lzip_index::udata_size() const
udata_size(x) ==
  IF x.member_vector = <<>> THEN 0
  ELSE Block_end(x.member_vector[Len(x.member_vector)].dblock)

\* long long Lzip_index::cdata_size() const
cdata_size(x) ==
  IF x.member_vector = <<>> THEN 0
  ELSE Block_end(x.member_vector[Len(x.member_vector)].mblock)

set_retval_assign(rv, new_val) == new_val

\* inline void set_retval( int & retval, const int new_val )
set_retval(rv, new_val) == IF rv < new_val THEN new_val ELSE rv

\* bool Lzip_index::multi_empty() const: a file of two or more members, one
\* of them empty
multi_empty(x) ==
  /\ Len(x.member_vector) > 1
  /\ \E k \in 1 .. Len(x.member_vector) : x.member_vector[k].dblock.size = 0

\* list_files: what one file whose descriptor was opened adds to retval
list_status(x, from_stdin) ==
  IF x.retval_ # 0 THEN set_retval(0, x.retval_)
  ELSE IF ~from_stdin /\ multi_empty(x) THEN set_retval(0, 2)
  ELSE 0

-----------------------------------------------------------------------------
(* 64-bit words: four 16-bit limbs, least significant first.  A long long  *)
(* is kept as its two's-complement pattern.                                *)

Limb == Pow2(16)
u64(n) == <<n % Limb, (n \div Limb) % Limb, 0, 0>>

\* a + b + c on unsigned long long, with the carry out
u64_adc(a, b, c) ==
  LET s1 == a[1] + b[1] + c
      s2 == a[2] + b[2] + (s1 \div Limb)
      s3 == a[3] + b[3] + (s2 \div Limb)
      s4 == a[4] + b[4] + (s3 \div Limb)
  IN  <<<<s1 % Limb, s2 % Limb, s3 % Limb, s4 % Limb>>, s4 \div Limb>>
u64_add(a, b) == u64_adc(a, b, 0)[1]
u64_not(a) == [k \in 1 .. 4 |-> Limb - 1 - a[k]]
u64_sub(a, b) == u64_adc(a, u64_not(b), 1)[1]
\* k * a for a small k
u64_mul(k, a) ==
  LET p1 == k * a[1]
      p2 == k * a[2] + (p1 \div Limb)
      p3 == k * a[3] + (p2 \div Limb)
      p4 == k * a[4] + (p3 \div Limb)
  IN  <<p1 % Limb, p2 % Limb, p3 % Limb, p4 % Limb>>
\* a / 8
u64_div8(a) ==
  [k \in 1 .. 4 |-> (a[k] \div 8) + (IF k < 4 THEN (a[k + 1] % 8) * (Limb \div 8) ELSE 0)]
\* a < b on unsigned long long
u64_less(a, b) ==
  \E k \in 1 .. 4 : a[k] < b[k] /\ \A j \in (k + 1) .. 4 : a[j] = b[j]
\* a < 0 on long long
i64_negative(a) == a[4] >= Limb \div 2
\* a + b on long long overflows
i64_add_overflows(a, b) ==
  /\ i64_negative(a) = i64_negative(b)
  /\ i64_negative(u64_add(a, b)) # i64_negative(a)

\* bool Lzip_trailer::check_consistency() const, on the 64-bit fields
check_consistency_u64(crc_is_zero, dsize, msize) ==
  LET mlimit == u64_add(u64_div8(u64_add(u64_mul(9, dsize), u64(7))),
                        u64(min_member_size))
      dlimit == u64_sub(u64_mul(7090, u64_sub(msize, u64(26))), u64(1))
  IN  IF crc_is_zero # (dsize = u64(0)) THEN FALSE
      ELSE IF u64_less(msize, u64(min_member_size)) THEN FALSE
      ELSE IF u64_less(dsize, mlimit) /\ u64_less(mlimit, msize) THEN FALSE
      ELSE IF u64_less(msize, dlimit) /\ u64_less(dlimit, dsize) THEN FALSE
      ELSE TRUE

\* long long Block::end() const on 64-bit words.  Where the signed addition
\* overflows the behaviour is undefined: the build either wraps or traps.
Block_end_i64(b) ==
  IF i64_add_overflows(b.pos, b.size)
  THEN { [trap |-> FALSE, val |-> u64_add(b.pos, b.size)],
         [trap |-> TRUE, val |-> u64(0)] }
  ELSE { [trap |-> FALSE, val |-> u64_add(b.pos, b.size)] }

\* the stored fields of a trailer: is the CRC zero, data size, member size
SumTrailer(crc_is_zero, dsize, msize) ==
  [crc_is_zero |-> crc_is_zero, dsize |-> dsize, msize |-> msize]
trailer_good(t) == check_consistency_u64(t.crc_is_zero, t.dsize, t.msize)

SumMaxMembers == 3     \* members of the files of SpecSum
SumPal ==
  { SumTrailer(TRUE, u64(0), u64(min_member_size)),        \* an empty member
    SumTrailer(FALSE, u64(10000), u64(100)),
    SumTrailer(FALSE, <<0, 0, 0, 16384>>, <<0, 0, 0, 4>>), \* 2^62 in 2^50
    \* 2^64 - 8192 bytes in 2601797471609271
    SumTrailer(FALSE, <<57344, 65535, 65535, 65535>>, <<41399, 11794, 15954, 9>>),
    \* 2^64 - 4096 bytes in 2^52: not consistent
    SumTrailer(FALSE, <<61440, 65535, 65535, 65535>>, <<0, 0, 0, 16>>) }

\* the sum of the member sizes of the first k members, and its carry
RECURSIVE TotalSize(_, _)
TotalSize(st, k) ==
  IF k = 0 THEN <<u64(0), 0>>
  ELSE LET t == TotalSize(st, k - 1)
           a == u64_adc(t[1], st[k].msize, 0)
       IN  <<a[1], t[2] + a[2]>>

\* files of whole members with valid headers, whose last trailer is good and
\* whose size lseek can report (insize <= INT64_MAX)
SumFiles ==
  { st \in UNION { [1 .. n -> SumPal] : n \in 1 .. SumMaxMembers } :
      /\ trailer_good(st[Len(st)])
      /\ TotalSize(st, Len(st))[2] = 0
      /\ ~i64_negative(TotalSize(st, Len(st))[1]) }

sumIdle == [pc |-> "idle", stored |-> <<>>, pos |-> u64(0), k |-> 0, retval_ |-> 0,
            member_vector |-> <<>>, i |-> 0]

-----------------------------------------------------------------------------
(* The encoder, as far as the decoder's claims need it: a member is the    *)
(* header, the coder's 5 leading bytes, one byte per symbol of a valid     *)
(* parse of the data, the End Of Stream marker and the trailer.  A parse   *)
(* is valid by the data alone: a copy at position i with distance d and    *)
(* length len needs d < i, d < dictionary_size and equal bytes.            *)

EncOps ==
  { [byte |-> 128, kind |-> "shortrep", a |-> 0, len |-> 1],
    [byte |-> 129, kind |-> "rep", a |-> 0, len |-> 2],
    [byte |-> 130, kind |-> "rep", a |-> 0, len |-> 3],
    [byte |-> 131, kind |-> "rep", a |-> 1, len |-> 2],
    [byte |-> 132, kind |-> "rep", a |-> 2, len |-> 2],
    [byte |-> 133, kind |-> "rep", a |-> 3, len |-> 2],
    [byte |-> 134, kind |-> "match", a |-> 0, len |-> 2],
    [byte |-> 135, kind |-> "match", a |-> 0, len |-> 3],
    [byte |-> 136, kind |-> "match", a |-> 1, len |-> 2],
    [byte |-> 137, kind |-> "match", a |-> 1, len |-> 3],
    [byte |-> 138, kind |-> "match", a |-> 2, len |-> 2],
    [byte |-> 139, kind |-> "match", a |-> 5, len |-> 2] }

CopyOk(S, i, d, len, ds) ==
  /\ d < i
  /\ d < ds
  /\ i + len <= Len(S)
  /\ \A k \in 1 .. len : S[i + k] = S[i + k - d - 1]

RepMove(reps, k) ==
  IF k = 0 THEN reps
  ELSE IF k = 1 THEN <<reps[2], reps[1], reps[3], reps[4]>>
  ELSE IF k = 2 THEN <<reps[3], reps[1], reps[2], reps[4]>>
  ELSE <<reps[4], reps[1], reps[2], reps[3]>>

OpReps(reps, op) ==
  IF op.kind = "shortrep" THEN reps
  ELSE IF op.kind = "rep" THEN RepMove(reps, op.a)
  ELSE <<op.a, reps[1], reps[2], reps[3]>>

\* the symbol streams of the valid parses of S from position i on
RECURSIVE Parses(_, _, _, _)
Parses(S, i, reps, ds) ==
  IF i = Len(S) THEN {<<>>}
  ELSE { <<S[i + 1]>> \o t : t \in Parses(S, i + 1, reps, ds) }
       \cup UNION { IF CopyOk(S, i, OpReps(reps, op)[1], op.len, ds)
                    THEN { <<op.byte>> \o t :
                             t \in Parses(S, i + op.len, OpReps(reps, op), ds) }
                    ELSE {} : op \in EncOps }

HeaderBytes(ds) == lzip_magic \o <<1, set_dictionary_size(ds, 0)[2]>>
LoadBytes == <<0, 0, 0, 0, 0>>
EosBytes == <<EosByte, 0, 0, 0, 0>>

\* a member made of a symbol stream and a trailer naming data S
MemberOf(ds, load, toks, S) ==
  HeaderBytes(ds) \o load \o toks \o EosBytes
    \o make_trailer(crc_of(S), Len(S),
                    Lzip_header_size + Len(load) + Len(toks) + Len(EosBytes)
                      + Lzip_trailer_size)

Enc(S, toks, ds) == [data |-> S, bytes |-> MemberOf(ds, LoadBytes, toks, S)]

RECURSIVE Strings(_, _)
Strings(alphabet, n) ==
  IF n = 0 THEN {<<>>}
  ELSE Strings(alphabet, n - 1)
       \cup { Append(t, a) : t \in Strings(alphabet, n - 1), a \in alphabet }

Encodings(data_set, ds) ==
  UNION { { Enc(S, t, ds) : t \in Parses(S, 0, <<0, 0, 0, 0>>, ds) } :
            S \in data_set }

-----------------------------------------------------------------------------
(* The input files of Spec                                                 *)

MaxDataLen == 3        \* data of the single members
PairDataLen == 2       \* data of the members of the two-member files
RawLen == 2            \* symbols of the raw streams
UnitDataLen == 4       \* data decoded through the small dictionaries
Alphabet == {0, 1}
UnitDictSizes == {2, 3}
Crc0Data == <<10, 14, 12, 14, 95>>     \* a string whose CRC32 is 0
RepData == <<0, 1, 0, 1, 1, 1>>        \* a string with parses using rep1
FarData == <<2, 3, 4, 5, 6, 7, 2, 3>>  \* a string with a match at distance 5

\* Cl_options::Cl_options()
DefaultOpts == [ignore_empty |-> TRUE, ignore_marking |-> TRUE,
                ignore_trailing |-> TRUE, loose_trailing |-> FALSE]
EmptyError == [DefaultOpts EXCEPT !.ignore_empty = FALSE]        \* --empty-error
MarkingError == [DefaultOpts EXCEPT !.ignore_marking = FALSE]    \* --marking-error
TrailingError == [DefaultOpts EXCEPT !.ignore_trailing = FALSE]  \* -a
LooseTrailing == [DefaultOpts EXCEPT !.loose_trailing = TRUE]    \* --loose-trailing
OptSet == {DefaultOpts, EmptyError, MarkingError, TrailingError, LooseTrailing}

SingleEncs ==
  Encodings(Strings(Alphabet, MaxDataLen) \cup {Crc0Data, RepData, FarData},
            min_dictionary_size)
PairEncs == Encodings(Strings(Alphabet, PairDataLen), min_dictionary_size)
TinyEncs == Encodings(Strings(Alphabet, 1), min_dictionary_size)
MPal == { Enc(<<>>, <<>>, min_dictionary_size),
          Enc(<<0>>, <<0>>, min_dictionary_size),
          Enc(<<0, 0>>, <<0, 128>>, min_dictionary_size),
          Enc(Crc0Data, Crc0Data, min_dictionary_size) }
CutPal == { Enc(<<>>, <<>>, min_dictionary_size),
            Enc(<<0, 0>>, <<0, 128>>, min_dictionary_size) }

TrailPal ==
  { <<120>>,                                  \* one byte of garbage
    <<76, 90>>,                               \* the start of a header
    <<76, 90, 73, 81, 1, 12, 0>>,             \* a header with a corrupt magic
    <<76, 90, 73, 81, 1, 12>>,                \* the same, ending the file
    <<120, 120, 120, 120, 120, 120, 120>>,    \* garbage longer than a header
    <<76, 90, 73, 80, 0, 12, 0>>,             \* a header of version 0
    <<76, 90, 73, 80, 1, 11, 0>>,             \* a header with a bad dictionary size
    <<0, 0, 0>> }                             \* zeros

Seqs1to2(P) == { <<a>> : a \in P } \cup { <<a, b>> : a \in P, b \in P }

RECURSIVE BytesOf(_)
BytesOf(ms) == IF ms = <<>> THEN <<>> ELSE Head(ms).bytes \o BytesOf(Tail(ms))
RECURSIVE DataOf(_)
DataOf(ms) == IF ms = <<>> THEN <<>> ELSE Head(ms).data \o DataOf(Tail(ms))
EndsOf(ms) == { Len(BytesOf(SubSeq(ms, 1, k))) : k \in 1 .. Len(ms) }
SizesOf(ms) == [k \in 1 .. Len(ms) |-> <<Len(ms[k].data), Len(ms[k].bytes)>>]

Ghost(kind, ms, cut) ==
  [kind |-> kind, data |-> DataOf(ms), ends |-> EndsOf(ms), sizes |-> SizesOf(ms),
   cut |-> cut, ds |-> 0]

Input(kind, ms, trailing, cl, fd) ==
  [file |-> BytesOf(ms) \o trailing, cl |-> cl, outfd |-> fd,
   gh |-> Ghost(kind, ms, -1)]

InSingle ==
  { Input("valid", <<e>>, <<>>, cl, 1) : e \in SingleEncs, cl \in {DefaultOpts, EmptyError} }
InPair ==
  { Input("valid", <<a, b>>, <<>>, cl, 1) :
      a \in PairEncs, b \in PairEncs, cl \in {DefaultOpts, EmptyError} }
InTriple ==
  { Input("valid", <<a, b, c>>, <<>>, DefaultOpts, 1) : a \in MPal, b \in MPal, c \in MPal }
InTrail ==
  { Input("trail", ms, t, cl, fd) :
      ms \in Seqs1to2(MPal), t \in TrailPal, cl \in OptSet, fd \in {1, -1} }

\* every proper prefix of a file of one or two members, decompressed with the
\* default options, and tested with each set of options
CutRuns == { <<cl, -1>> : cl \in OptSet } \cup { <<DefaultOpts, 1>> }
InCut ==
  UNION { { [file |-> SubSeq(BytesOf(ms), 1, n), cl |-> run[1], outfd |-> run[2],
             gh |-> Ghost("cut", ms, n)] :
              n \in 0 .. (Len(BytesOf(ms)) - 1), run \in CutRuns } :
          ms \in Seqs1to2(CutPal) }

\* a member whose trailer names another CRC, data size or member size
TrailerTweaks == {<<1, 0, 0>>, <<0, 1, 0>>, <<0, 0, 1>>, <<0, 0, -1>>}
Retrailed(e, tw) ==
  LET body == SubSeq(e.bytes, 1, Len(e.bytes) - Lzip_trailer_size)
      c == crc_of(e.data)
  IN  body \o make_trailer(<<c[1], (c[2] + tw[1]) % 65536>>, Len(e.data) + tw[2],
                           Len(e.bytes) + tw[3])
InBadTrailer ==
  { [file |-> Retrailed(e, tw), cl |-> cl, outfd |-> fd,
     gh |-> Ghost("badtrailer", <<e>>, -1)] :
      e \in PairEncs, tw \in TrailerTweaks, cl \in {DefaultOpts, EmptyError},
      fd \in {1, -1} }

\* a member whose first LZMA byte is not 0
InMarked ==
  { [file |-> MemberOf(min_dictionary_size, <<1, 0, 0, 0, 0>>, e.data, e.data),
     cl |-> cl, outfd |-> 1, gh |-> Ghost("marked", <<e>>, -1)] :
      e \in TinyEncs, cl \in {DefaultOpts, MarkingError} }

\* any symbols at all, followed by the marker and a trailer for as many
\* zeros as the symbols name
RawSyms == {0} \cup (128 .. 144)
RECURSIVE NominalLen(_)
NominalLen(toks) ==
  IF toks = <<>> THEN 0
  ELSE (IF Head(toks) <= 128 THEN 1
        ELSE IF Head(toks) >= 140 THEN 0
        ELSE Tok(Head(toks)).len) + NominalLen(Tail(toks))
Zeros(n) == [k \in 1 .. n |-> 0]
\* the Sync Flush marker is followed by the coder's flush and a new start
RECURSIVE RawBytes(_)
RawBytes(toks) ==
  IF toks = <<>> THEN <<>>
  ELSE (IF Head(toks) = SyncByte THEN <<SyncByte, 0, 0, 0, 0>> \o LoadBytes
        ELSE <<Head(toks)>>) \o RawBytes(Tail(toks))
RawFile(toks) ==
  LET body == HeaderBytes(min_dictionary_size) \o LoadBytes \o RawBytes(toks)
                \o EosBytes
  IN  body \o make_trailer(crc_of(Zeros(NominalLen(toks))), NominalLen(toks),
                           Len(body) + Lzip_trailer_size)
InRaw ==
  { [file |-> RawFile(toks), cl |-> DefaultOpts, outfd |-> 1,
     gh |-> Ghost("raw", <<>>, -1)] : toks \in Strings(RawSyms, RawLen) }

\* LZ_decoder alone, built with a dictionary small enough to wrap
InUnit ==
  UNION { { [file |-> e.bytes, cl |-> DefaultOpts, outfd |-> 1,
             gh |-> [Ghost("unit", <<e>>, -1) EXCEPT !.ds = ds]] :
              e \in Encodings(Strings(Alphabet, UnitDataLen), ds) } :
          ds \in UnitDictSizes }

\* a header with two or three bytes of the magic right, alone, followed by
\* one byte, or followed by the rest of an empty member; first in the file or
\* after one member
CorruptHeaders ==
  { <<76, 90, 73, 81, 1, 12>>, <<108, 90, 73, 112, 1, 12>>, <<76, 122, 105, 80, 1, 12>> }
CorruptTails ==
  { <<>>, <<0>>,
    SubSeq(Enc(<<>>, <<>>, min_dictionary_size).bytes, Lzip_header_size + 1,
           min_member_size) }
TrailingOpts ==
  { [DefaultOpts EXCEPT !.ignore_trailing = it, !.loose_trailing = lt] :
      it \in BOOLEAN, lt \in BOOLEAN }
InCorrupt ==
  { Input("corrupt", ms, h \o t, cl, fd) :
      ms \in {<<>>} \cup { <<e>> : e \in TinyEncs \cup {Enc(<<>>, <<>>, min_dictionary_size)} },
      h \in CorruptHeaders, t \in CorruptTails, cl \in TrailingOpts, fd \in {1, -1} }

\* junk between two members: a letter, a zero, or 20 bytes that read as the
\* trailer of a member starting where m1 starts
JunkPal(m1) ==
  { <<103>>, <<0>>,
    make_trailer(<<1, 1>>, 40, Len(m1.bytes) + Lzip_trailer_size) }
InJunk ==
  UNION { { [file |-> m1.bytes \o j \o m2.bytes, cl |-> cl, outfd |-> fd,
             gh |-> Ghost("junk", <<m1>>, -1)] :
              j \in JunkPal(m1), m2 \in MPal \ {Enc(<<0, 0>>, <<0, 128>>, min_dictionary_size)},
              cl \in OptSet, fd \in {1, -1} } :
          m1 \in TinyEncs \cup {Enc(<<>>, <<>>, min_dictionary_size)} }

\* one or two members, tested and decompressed, as a named file and as the
\* standard input
InMulti ==
  { Input("multi", ms, <<>>, cl, fd) :
      ms \in Seqs1to2(MPal), cl \in {DefaultOpts, EmptyError}, fd \in {1, -1} }
\* two members whose headers name different dictionary sizes, alone and
\* followed by a byte of trailing data
DictPal == { Enc(<<0>>, <<0>>, ds) :
               ds \in {min_dictionary_size, 2 * min_dictionary_size,
                       min_dictionary_size + min_dictionary_size \div 2} }
InDict ==
  { Input("valid", <<a, b>>, <<>>, DefaultOpts, 1) : a \in DictPal, b \in DictPal }
    \cup { Input("trail", <<a, b>>, <<120>>, DefaultOpts, 1) : a \in DictPal, b \in DictPal }
\* files without a first member: every file shorter than a header that
\* starts like one, text, and a member whose magic is wrong
HeadFiles ==
  { SubSeq(lzip_magic \o <<1, 12>>, 1, n) : n \in 0 .. Lzip_header_size - 1 }
    \cup { <<116, 101, 115, 116, 10>>, <<116, 101, 115, 116, 32, 116, 101, 115, 116, 10>>,
           <<76, 90, 73, 81>> \o SubSeq(Enc(<<0>>, <<0>>, min_dictionary_size).bytes, 5,
                                         min_member_size + 1) }
InHead ==
  { [file |-> f, cl |-> cl, outfd |-> fd, gh |-> Ghost("head", <<>>, -1)] :
      f \in HeadFiles, cl \in TrailingOpts, fd \in {1, -1} }
STDIN_FILENO == 0
NamedFd == STDIN_FILENO + 3
\* 'infd = STDIN_FILENO' for the file name "-", else the descriptor opened
InFds(in) == IF in \in InMulti THEN {STDIN_FILENO, NamedFd} ELSE {NamedFd}

Inputs ==
  InSingle \cup InPair \cup InTriple \cup InTrail \cup InCut \cup InBadTrailer
    \cup InMarked \cup InRaw \cup InUnit \cup InCorrupt \cup InJunk \cup InMulti
    \cup InDict \cup InHead

-----------------------------------------------------------------------------
(* Spec: decompress() of main.cc run on infile, one action per step, then  *)
(* the Lzip_index of the same file                                         *)

NoDecoder == [buffer |-> <<>>, dictionary_size |-> 0, pos |-> 0, stream_pos |-> 0,
              partial_data_pos |-> 0, crc_ |-> crc_ones, pos_wrapped |-> FALSE,
              outfd |-> -1]
NoIndex == [retval_ |-> -1, dictionary_size_ |-> 0, member_vector |-> <<>>]
\* first: the verdict of the run before this one, when the file is tested twice
NoLog == [hres |-> "none", fwd |-> <<>>, first |-> <<>>]
\* unsigned rep0 = 0; rep1 = 0; rep2 = 0; rep3 = 0; State state;
NewLoc == [rep0 |-> 0, rep1 |-> 0, rep2 |-> 0, rep3 |-> 0, st |-> 0]

\* main and list_files before the loop over the file names: retval = 0,
\* failed_tests = 0, stdin_used = false, outfd = -1,
\* delete_output_on_interrupt (doi) = false.  outname is -1 for no output
\* file name, 0 for the name given with -o, k for the name made from the
\* k-th file name.  created, closed_out, removed_out, removed_in, in_closed
\* and written record what was done to the files and descriptors.
batchIdle ==
  [pc |-> "idle", mode |-> "none", out |-> "none", names |-> <<>>, i |-> 0,
   retval |-> 0, failed_tests |-> 0, stdin_used |-> FALSE,
   keep |-> FALSE, volume |-> FALSE, outfd |-> -1, doi |-> FALSE, outname |-> -1,
   created |-> {}, closed_out |-> {}, removed_out |-> {}, removed_in |-> {},
   in_closed |-> {}, written |-> {},
   results |-> <<>>, read |-> {}, wrote |-> {}, openfail |-> {},
   ended |-> "none", closing_error |-> FALSE, status |-> -1]
\* no readblock or writeblock running; errno is "0", "EINTR" or "EIO"
ioIdle ==
  [pc |-> "idle", op |-> "none", size |-> 0, sz |-> 0, errno |-> "0", calls |-> 0,
   moved |-> 0, last |-> [n |-> 0, errno |-> "0"]]

SideIdle == sum = sumIdle /\ batch = batchIdle /\ io = ioIdle

CodecIdle ==
  /\ infile = <<>>
  /\ infd = -1
  /\ cl_opts = DefaultOpts
  /\ outfd = -1
  /\ outfile = <<>>
  /\ rdec = [pos |-> 0, mstart |-> 0]
  /\ decoder = NoDecoder
  /\ loc = NewLoc
  /\ pc = "idle"
  /\ first_member = TRUE
  /\ result = -1
  /\ retval = 0
  /\ index = NoIndex
  /\ ev = NoEv
  /\ gh = Ghost("idle", <<>>, -1)
  /\ log = NoLog

Init ==
  /\ hdr = hdrIdle
  /\ trl = trlIdle
  /\ SideIdle
  /\ \E in \in Inputs :
       /\ infile = in.file
       /\ infd \in InFds(in)
       /\ cl_opts = in.cl
       /\ outfd = in.outfd
       /\ gh = in.gh
       /\ IF in.gh.kind = "unit"
          THEN /\ rdec = [pos |-> Lzip_header_size, mstart |-> 0]
               /\ decoder = new_decoder(in.gh.ds, in.outfd)
               /\ pc = "load"
          ELSE /\ rdec = [pos |-> 0, mstart |-> 0]
               /\ decoder = NoDecoder
               /\ pc = "header"
  /\ outfile = <<>>
  /\ loc = NewLoc
  /\ first_member = TRUE
  /\ result = -1
  /\ retval = 0
  /\ index = NoIndex
  /\ ev = NoEv
  /\ log = NoLog

\* bool show_trailing_data( data, size, pp, all, ignore_trailing )
show_trailing_data(ignore_trailing) == ignore_trailing

\* a loop head that treats the first header as any other
header_outcome_any_first(file, r1, hb, first, cl) ==
  IF rdec_finished(file, r1)
  THEN IF check_prefix(hb, Len(hb)) THEN "truncated_header"
       ELSE IF Len(hb) > 0 /\ ~show_trailing_data(cl.ignore_trailing)
       THEN "trailing_error"
       ELSE IF Len(hb) > 0 THEN "trailing_ignored" ELSE "end"
  ELSE IF ~check_magic(hb)
  THEN IF ~cl.loose_trailing /\ check_corrupt(hb) THEN "corrupt_header"
       ELSE IF ~show_trailing_data(cl.ignore_trailing) THEN "trailing_error"
       ELSE "trailing_ignored"
  ELSE IF ~check_version(hb) THEN "bad_version"
  ELSE IF ~isvalid_ds(get_dictionary_size(hb[6])) THEN "bad_dict"
  ELSE "member"

\* what the head of the loop of decompress() decides on the header read
header_outcome(file, r1, hb, first, cl) ==
  IF rdec_finished(file, r1)
  THEN IF first THEN "eof_first"
       ELSE IF check_prefix(hb, Len(hb)) THEN "truncated_header"
       ELSE IF Len(hb) > 0 /\ ~show_trailing_data(cl.ignore_trailing)
       THEN "trailing_error"
       ELSE IF Len(hb) > 0 THEN "trailing_ignored" ELSE "end"
  ELSE IF ~check_magic(hb)
  THEN IF first THEN "bad_magic"
       ELSE IF ~cl.loose_trailing /\ check_corrupt(hb) THEN "corrupt_header"
       ELSE IF ~show_trailing_data(cl.ignore_trailing) THEN "trailing_error"
       ELSE "trailing_ignored"
  ELSE IF ~check_version(hb) THEN "bad_version"
  ELSE IF ~isvalid_ds(get_dictionary_size(hb[6])) THEN "bad_dict"
  ELSE "member"

member_start_no_reset(r) == r

\* 'Lzip_header header; rdec.reset_member_position();' of decompress()
member_start(r) == reset_member_position(r)

\* decompress(), from the head of the loop to the construction of LZ_decoder
ReadHeader ==
  /\ pc = "header"
  /\ LET r0 == member_start(rdec)
         hb == read_data(infile, r0, Lzip_header_size)
         r1 == rdec_skip(infile, r0, Len(hb))
         h == header_outcome(infile, r1, hb, first_member, cl_opts)
     IN  /\ rdec' = r1
         /\ log' = [log EXCEPT !.hres = h]
         /\ IF h = "member"
            THEN /\ decoder' = new_decoder(get_dictionary_size(hb[6]), outfd)
                 /\ pc' = "load"
                 /\ retval' = retval
            ELSE /\ decoder' = decoder
                 /\ pc' = "index"
                 /\ retval' = IF h \in {"end", "trailing_ignored"} THEN retval ELSE 2
  /\ ev' = NoEv
  /\ UNCHANGED <<hdr, trl, sum, batch, io, infile, infd, cl_opts, outfd, outfile, loc, first_member,
                 result, index, gh>>

\* decompress(), from the return of decode_member to the end of the loop body
MemberEnd(res, d, r) ==
  /\ result' = res
  /\ retval' = IF res # 0 THEN 2 ELSE retval
  /\ first_member' = IF res = 0 THEN FALSE ELSE first_member
  /\ log' = IF res = 0
            THEN [log EXCEPT !.fwd = Append(@, <<data_position(d), member_position(r)>>)]
            ELSE log
  /\ pc' = IF gh.kind = "unit" THEN "done"
           ELSE IF res # 0 THEN "index" ELSE "header"

\* decode_member, up to 'if( !rdec.load( cl_opts.ignore_marking ) ) return 6;'
Load ==
  /\ pc = "load"
  /\ LET ld == rdec_load(infile, rdec, cl_opts.ignore_marking)
     IN  /\ rdec' = ld[2]
         /\ loc' = NewLoc
         /\ IF ld[1]
            THEN /\ pc' = "symbol"
                 /\ UNCHANGED <<result, retval, first_member, log>>
            ELSE MemberEnd(6, decoder, ld[2])
  /\ ev' = NoEv
  /\ UNCHANGED <<hdr, trl, sum, batch, io, infile, infd, cl_opts, outfd, outfile, decoder, index, gh>>

\* decode_member, one pass of its loop, or the end of the loop
Symbol ==
  /\ pc = "symbol"
  /\ LET p == decode_pass(infile, [d |-> decoder, o |-> outfile], loc, rdec, cl_opts)
     IN  /\ decoder' = p.s.d
         /\ outfile' = p.s.o
         /\ loc' = p.l
         /\ rdec' = p.r
         /\ ev' = p.ev
         /\ IF p.ret = -1
            THEN UNCHANGED <<pc, result, retval, first_member, log>>
            ELSE MemberEnd(p.ret, p.s.d, p.r)
  /\ UNCHANGED <<hdr, trl, sum, batch, io, infile, infd, cl_opts, outfd, index, gh>>

\* const Lzip_index lzip_index( infd, cl_opts ), as list_files builds it
BuildIndex ==
  /\ pc = "index"
  /\ index' = Lzip_index(infile, cl_opts)
  /\ pc' = "done"
  /\ UNCHANGED <<hdr, trl, sum, batch, io, infile, infd, cl_opts, outfd, outfile, rdec, decoder, loc,
                 first_member, result, retval, ev, gh, log>>

TestAgain_no_rewind ==
  /\ pc = "done"
  /\ outfd < 0
  /\ gh.kind # "unit"
  /\ log.first = <<>>
  /\ decoder' = NoDecoder
  /\ loc' = NewLoc
  /\ result' = -1
  /\ retval' = 0
  /\ first_member' = TRUE
  /\ ev' = NoEv
  /\ pc' = "header"
  /\ log' = [NoLog EXCEPT !.first = <<retval, log.hres, result, log.fwd>>]
  /\ UNCHANGED <<hdr, trl, sum, batch, io, infile, infd, cl_opts, outfd, outfile, index, gh,
                 rdec>>

\* main tests the same file again: the objects of the first call of
\* decompress() are gone, the second call starts with a new Range_decoder,
\* retval = 0 and first_member = true; outfd is still -1 and the output is
\* what it was
TestAgain ==
  /\ pc = "done"
  /\ outfd < 0
  /\ gh.kind # "unit"
  /\ log.first = <<>>
  /\ rdec' = [pos |-> 0, mstart |-> 0]
  /\ decoder' = NoDecoder
  /\ loc' = NewLoc
  /\ result' = -1
  /\ retval' = 0
  /\ first_member' = TRUE
  /\ ev' = NoEv
  /\ pc' = "header"
  /\ log' = [NoLog EXCEPT !.first = <<retval, log.hres, result, log.fwd>>]
  /\ UNCHANGED <<hdr, trl, sum, batch, io, infile, infd, cl_opts, outfd, outfile, index, gh>>

Next == ReadHeader \/ Load \/ Symbol \/ BuildIndex \/ TestAgain

Spec == Init /\ [][Next]_vars

-----------------------------------------------------------------------------
(* SpecDS: the dictionary size setter followed by the getter               *)

DsFullBits == 13
DsProbe ==
  {0, 1, 4094, 4095, max_dictionary_size + 1, 2 * max_dictionary_size,
   2147483647}
  \cup (min_dictionary_size .. Pow2(DsFullBits))
  \cup { Pow2(b) - k * (Pow2(b) \div 16) + d :
           b \in (min_dictionary_bits + 1) .. max_dictionary_bits,
           k \in 0 .. 7, d \in {-1, 0, 1} }

InitDS ==
  /\ hdr \in { [pc |-> "new", sz |-> n, data5 |-> d, ok |-> FALSE, got |-> 0] :
                 n \in DsProbe, d \in {0, 255} }
  /\ trl = trlIdle
  /\ SideIdle
  /\ CodecIdle

\* header.dictionary_size( sz )
SetDictionarySize ==
  /\ hdr.pc = "new"
  /\ LET r == set_dictionary_size(hdr.sz, hdr.data5)
     IN  hdr' = [hdr EXCEPT !.pc = "set", !.ok = r[1], !.data5 = r[2]]
  /\ UNCHANGED <<trl, sum, batch, io, cvars>>

\* header.dictionary_size(), as compress() calls it after a successful set
GetDictionarySize ==
  /\ hdr.pc = "set"
  /\ hdr.ok
  /\ hdr' = [hdr EXCEPT !.pc = "read", !.got = get_dictionary_size(hdr.data5)]
  /\ UNCHANGED <<trl, sum, batch, io, cvars>>

NextDS == SetDictionarySize \/ GetDictionarySize

SpecDS == InitDS /\ [][NextDS]_vars

\* The representable dictionary sizes: 2^b - k * 2^b / 16
Representable ==
  { Pow2(b) - k * (Pow2(b) \div 16) :
      b \in min_dictionary_bits .. max_dictionary_bits, k \in 0 .. 7 }

CeilLog2(n) == CHOOSE b \in 0 .. 30 : Pow2(b) >= n /\ (b = 0 \/ Pow2(b - 1) < n)

LargestK(b, n) ==
  CHOOSE k \in 0 .. 7 :
    /\ Pow2(b) - k * (Pow2(b) \div 16) >= n
    /\ \A j \in (k + 1) .. 7 : Pow2(b) - j * (Pow2(b) \div 16) < n

SmallestRepresentableFrom(n) ==
  CHOOSE r \in Representable : r >= n /\ \A t \in Representable : t >= n => r <= t

\* C7: for every n in [4096, 2^29] the setter succeeds, codes ceil(log2(n))
\* in the low 5 bits and the largest fitting fraction k in the top 3 bits,
\* and the getter then returns n when n is representable and the smallest
\* representable size >= n otherwise; outside [4096, 2^29] the setter fails.
C7_DictSizeRoundTrip ==
  hdr.pc \in {"set", "read"} =>
    /\ hdr.ok <=> (hdr.sz >= 4096 /\ hdr.sz <= Pow2(29))
    /\ hdr.ok =>
         /\ hdr.data5 % 32 = CeilLog2(hdr.sz)
         /\ hdr.data5 \div 32 = LargestK(CeilLog2(hdr.sz), hdr.sz)
    /\ hdr.pc = "read" =>
         hdr.got = (IF hdr.sz \in Representable THEN hdr.sz
                    ELSE SmallestRepresentableFrom(hdr.sz))

C7_Witness ==
  /\ hdr.pc = "read"
  /\ hdr.sz \notin Representable
  /\ hdr.got > hdr.sz
  /\ hdr.data5 \div 32 > 0

-----------------------------------------------------------------------------
(* SpecTrailer: check_consistency on a trailer with chosen field values    *)

TrMaxData == 40
TrMaxExtra == 50
TrCrcs == {<<0, 0>>, <<0, 1>>, <<53762, 61325>>}
TrDataSizes ==
  (0 .. TrMaxData)
  \cup { 7090 * (m - 26) - 1 + d : m \in {36, 37, 40}, d \in {-1, 0, 1} }
TrMemberSizes == 30 .. (min_member_size + TrMaxExtra)

InitTrailer ==
  /\ trl \in { [pc |-> "new", data |-> make_trailer(c, d, m), res |-> FALSE] :
                 c \in TrCrcs, d \in TrDataSizes, m \in TrMemberSizes }
  /\ hdr = hdrIdle
  /\ SideIdle
  /\ CodecIdle

\* trailer.check_consistency()
CheckConsistency ==
  /\ trl.pc = "new"
  /\ trl' = [trl EXCEPT !.pc = "checked", !.res = check_consistency(trl.data)]
  /\ UNCHANGED <<hdr, sum, batch, io, cvars>>

NextTrailer == CheckConsistency

SpecTrailer == InitTrailer /\ [][NextTrailer]_vars

CeilDiv(a, b) == (a + b - 1) \div b

\* C8 as stated: check_consistency returns true exactly when
\* (crc == 0) == (data_size == 0), member_size >= 36,
\* data_size <= 7090 * (member_size - 26) - 1 and, only when data_size > 0,
\* member_size <= ceil(9 * data_size / 8) + 36.
C8_AsStated ==
  trl.pc = "checked" =>
    LET crc == data_crc(trl.data)
        d == data_size(trl.data)
        m == member_size(trl.data)
    IN  trl.res <=>
          /\ (crc = <<0, 0>>) <=> (d = 0)
          /\ m >= 36
          /\ d <= 7090 * (m - 26) - 1
          /\ d > 0 => m <= CeilDiv(9 * d, 8) + 36

\* C8 amended: the expansion bound member_size <= ceil(9 * data_size / 8) + 36
\* is enforced for every data_size, 0 included (an empty member is accepted
\* only with member_size = 36).
C8_Consistency ==
  trl.pc = "checked" =>
    LET crc == data_crc(trl.data)
        d == data_size(trl.data)
        m == member_size(trl.data)
    IN  trl.res <=>
          /\ (crc = <<0, 0>>) <=> (d = 0)
          /\ m >= 36
          /\ d <= 7090 * (m - 26) - 1
          /\ m <= CeilDiv(9 * d, 8) + 36

C8_Witness ==
  /\ trl.pc = "checked"
  /\ data_crc(trl.data) = <<0, 0>>
  /\ data_size(trl.data) = 0
  /\ member_size(trl.data) > 36
  /\ ~trl.res

-----------------------------------------------------------------------------
(* Properties of Spec                                                      *)

Done == pc = "done"

\* the file holds only whole members made by the encoder
WholeMembers == gh.kind \in {"valid", "unit"}

\* --empty-error asks for the failure of a file with an empty member
EmptyRefused == ~cl_opts.ignore_empty /\ \E k \in 1 .. Len(gh.sizes) : gh.sizes[k][1] = 0

\* C1: round trip.  For every byte string S and every valid parse of S the
\* encoder may choose, at every dictionary size, decompressing the member
\* made from S writes exactly S and ends with status 0 (unless S is empty
\* and --empty-error asks for empty members to be refused).
C1_RoundTrip ==
  (Done /\ WholeMembers /\ Len(gh.sizes) = 1 /\ ~EmptyRefused) =>
    /\ retval = 0
    /\ result = 0
    /\ outfile = gh.data

C1_Witness ==
  /\ Done
  /\ gh.kind = "valid"
  /\ gh.data = RepData
  /\ \E k \in 1 .. Len(infile) : infile[k] = 131
  /\ outfile = RepData
  /\ retval = 0

\* a second witness of the round trip: data decoded through a dictionary that
\* wrapped
C1_WrapReached ==
  /\ Done
  /\ gh.kind = "unit"
  /\ decoder.pos_wrapped
  /\ Len(outfile) > decoder.dictionary_size
  /\ outfile = gh.data

TrailerRead == SubSeq(infile, ev.tpos + 1, Min(ev.tpos + Lzip_trailer_size, Len(infile)))
TrailerSeen == TrailerRead \o Zeros(Lzip_trailer_size - Len(TrailerRead))
TrailerChecked == ev.kind = "marker" /\ ev.len = 2
TrailerGood ==
  /\ Len(TrailerRead) = Lzip_trailer_size
  /\ data_crc(TrailerSeen) = decoder_crc(decoder)
  /\ data_size(TrailerSeen) = data_position(decoder)
  /\ member_size(TrailerSeen) = rdec.pos - rdec.mstart

\* C3: check_trailer returns 0 only if the whole trailer was read and its
\* CRC, data size and member size equal the computed ones; if any of the
\* four fails it returns 3, also for an empty member with --empty-error.
C3_TrailerVerification ==
  TrailerChecked =>
    /\ result = 0 => TrailerGood
    /\ ~TrailerGood => result = 3
    /\ result \in {0, 3, 5}
    /\ result = 5 <=> (TrailerGood /\ ~cl_opts.ignore_empty /\ data_position(decoder) = 0)

C3_Witness ==
  /\ TrailerChecked
  /\ Len(TrailerRead) = Lzip_trailer_size
  /\ data_crc(TrailerSeen) = decoder_crc(decoder)
  /\ data_size(TrailerSeen) = data_position(decoder)
  /\ member_size(TrailerSeen) # rdec.pos - rdec.mstart
  /\ data_position(decoder) = 0
  /\ ~cl_opts.ignore_empty
  /\ result = 3

EofOrTrailerError ==
  \/ log.hres \in {"eof_first", "truncated_header"}
  \/ (log.hres = "member" /\ result \in {2, 3})

\* C4 as stated: every proper prefix of a valid file fails with status 2.
C4_AsStated ==
  (Done /\ gh.kind = "cut") => (retval = 2 /\ EofOrTrailerError)

RECURSIVE EndOfMember(_)
EndOfMember(k) == IF k = 0 THEN 0 ELSE gh.sizes[k][2] + EndOfMember(k - 1)

\* --empty-error and a whole empty member before the cut
EmptyBeforeCut ==
  /\ ~cl_opts.ignore_empty
  /\ \E k \in 1 .. Len(gh.sizes) : gh.sizes[k][1] = 0 /\ EndOfMember(k) <= gh.cut

\* C4 amended: every proper prefix that is empty or does not end at the end
\* of a member fails with status 2, with an unexpected end of file or a
\* trailer error; a prefix ending right after a member is a valid file and
\* is accepted.  (Under --empty-error a whole empty member before the cut
\* fails the file first, with the empty member error.)
C4_Truncation ==
  (Done /\ gh.kind = "cut") =>
    IF EmptyBeforeCut THEN retval = 2 /\ result = 5
    ELSE IF gh.cut \in gh.ends
    THEN retval = 0 /\ log.hres = "end"
    ELSE retval = 2 /\ EofOrTrailerError

C4_Witness ==
  /\ Done
  /\ gh.kind = "cut"
  /\ Len(gh.sizes) = 2
  /\ gh.cut \notin gh.ends
  /\ \E n \in gh.ends : n < gh.cut
  /\ result = 3
  /\ retval = 2
  /\ outfd = -1

\* a match whose distance came out as 0xFFFFFFFF
MarkerDecoded == ev.kind \in {"marker", "match", "error"} /\ ev.rep0 = marker_distance

\* C5: a match with distance 0xFFFFFFFF copies nothing and leaves rep0..rep3
\* and the state alone; with length 2 the member ends with the result of
\* check_trailer, with length 3 the range decoder is reloaded and decoding
\* goes on, with any other length decode_member returns 4.
C5_MarkerSafety ==
  MarkerDecoded =>
    /\ ev.kind = "marker"
    /\ data_position(decoder) = ev.dpos0
    /\ loc = ev.loc0
    /\ ev.len = 2 => /\ pc # "symbol"
                     /\ result = IF ~TrailerGood THEN 3
                                 ELSE IF ~cl_opts.ignore_empty /\ ev.dpos0 = 0 THEN 5
                                 ELSE 0
    /\ ev.len = 3 => /\ pc = "symbol"
                     /\ rdec.pos = Min(ev.tpos + 5, Len(infile))
    /\ ev.len \notin {2, 3} => /\ pc # "symbol"
                               /\ result = 4

C5_Witness ==
  /\ MarkerDecoded
  /\ ev.len = 3
  /\ pc = "symbol"
  /\ ev.dpos0 > 0
  /\ loc.st # 0

C5_UnknownMarkerReached ==
  /\ MarkerDecoded
  /\ ev.len = 4
  /\ result = 4
  /\ retval = 2

Copied == ev.kind \in {"match", "rep", "shortrep", "mlit"}

\* C6 as stated: every copy from the dictionary (fresh match, repeated
\* match, short-rep, match byte of a matched literal) happens only when
\* rep0 < dictionary_size and (rep0 < pos or the dictionary has wrapped).
C6_AsStated ==
  Copied =>
    /\ ULess(ev.rep0, decoder.dictionary_size)
    /\ ULess(ev.rep0, ev.pos0) \/ ev.wrapped0

RECURSIVE SumSizes(_, _)
SumSizes(mv, k) == IF k = 0 THEN 0 ELSE mv[k].dblock.size + SumSizes(mv, k - 1)

IndexPairs == [k \in 1 .. Len(index.member_vector) |->
                 <<index.member_vector[k].dblock.size,
                   index.member_vector[k].mblock.size>>]

\* C9 as stated: for every file of valid members, with or without tolerated
\* trailing data, the Lzip_index holds the (data_size, member_size) pairs a
\* forward scan decoding each member sees, in file order.
C9_AsStated ==
  (Done /\ gh.kind \in {"valid", "trail"} /\ retval = 0) =>
    /\ index.retval_ = 0
    /\ IndexPairs = log.fwd

\* C10: after a successful construction the members are in ascending file
\* order, each data_block.pos is the sum of the data sizes of the members
\* before it, and udata_size() is the sum of all data sizes.
C10_IndexOrder ==
  (Done /\ index.retval_ = 0) =>
    LET mv == index.member_vector
    IN  /\ Len(mv) > 0
        /\ mv[1].mblock.pos = 0
        /\ \A k \in 1 .. Len(mv) - 1 :
             mv[k + 1].mblock.pos = mv[k].mblock.pos + mv[k].mblock.size
        /\ \A k \in 1 .. Len(mv) : mv[k].dblock.pos = SumSizes(mv, k - 1)
        /\ udata_size(index) = SumSizes(mv, Len(mv))

C10_Witness ==
  /\ Done
  /\ index.retval_ = 0
  /\ Len(index.member_vector) = 3
  /\ index.member_vector[1].dblock.size = 1
  /\ index.member_vector[2].dblock.size = 2
  /\ index.member_vector[3].dblock.pos = 3
  /\ index.member_vector[3].mblock.pos > index.member_vector[2].mblock.pos

-----------------------------------------------------------------------------
(* Properties of Spec: trailing data, corrupt headers and empty members    *)

\* the bytes of infile after its members
MembersEnd == CHOOSE e \in gh.ends \cup {0} : \A f \in gh.ends : f <= e
Trailing == SubSeq(infile, MembersEnd + 1, Len(infile))
MagicMatches(t) == Cardinality({ k \in 1 .. Min(4, Len(t)) : t[k] = lzip_magic[k] })
\* bytes that do not start like the magic and match fewer than two of its bytes
PlainTrailing(t) == t # <<>> /\ t[1] # lzip_magic[1] /\ MagicMatches(t) < 2
StartsWithMagic(t) == Len(t) >= 4 /\ SubSeq(t, 1, 4) = lzip_magic
\* a file with an empty member among two or more
MultiEmptyFile ==
  Len(gh.sizes) > 1 /\ \E k \in 1 .. Len(gh.sizes) : gh.sizes[k][1] = 0
TrailingRun ==
  /\ Done
  /\ gh.kind = "trail"
  /\ cl_opts \in {DefaultOpts, TrailingError}
  /\ ~MultiEmptyFile

\* C12: members followed by plain trailing bytes are listed, tested and
\* decompressed with status 0 and the members' data when ignore_trailing is
\* set, and all three end with status 2 under -a; trailing bytes that start
\* with the magic are refused under both settings.
C12_AsStated ==
  /\ TrailingRun /\ PlainTrailing(Trailing) =>
       IF cl_opts.ignore_trailing
       THEN /\ retval = 0
            /\ outfd >= 0 => outfile = gh.data
            /\ list_status(index, FALSE) = 0
            /\ udata_size(index) = Len(gh.data)
       ELSE retval = 2 /\ list_status(index, FALSE) = 2
  /\ TrailingRun /\ StartsWithMagic(Trailing) =>
       retval = 2 /\ list_status(index, FALSE) = 2

CorruptRun == Done /\ gh.kind = "corrupt"

\* C13: a header with 2 or 3 right magic bytes makes list, test and
\* decompress end with status 2 as the first header of the file whatever
\* loose_trailing is, and after a member unless loose_trailing is set; with
\* loose_trailing it is trailing data, accepted or refused by ignore_trailing.
C13_AsStated ==
  CorruptRun =>
    IF gh.sizes = <<>> \/ ~cl_opts.loose_trailing \/ ~cl_opts.ignore_trailing
    THEN retval = 2 /\ list_status(index, FALSE) = 2
    ELSE retval = 0 /\ list_status(index, FALSE) = 0

JunkRun == Done /\ gh.kind = "junk"

\* C14: of a file m1, junk, m2 the listing fails with status 2 under every
\* option; test and decompress with the default options return 0 with the
\* data of m1 as output, and under -a they return 2, decompress having
\* written the data of m1.
C14_AsStated ==
  JunkRun =>
    /\ list_status(index, FALSE) = 2
    /\ cl_opts = DefaultOpts => retval = 0 /\ (outfd >= 0 => outfile = gh.data)
    /\ cl_opts = TrailingError => retval = 2 /\ (outfd >= 0 => outfile = gh.data)

\* the data sizes of the members decompress() has finished
RECURSIVE FwdData(_)
FwdData(f) == IF f = <<>> THEN 0 ELSE Head(f)[1] + FwdData(Tail(f))
\* the output ends with every byte the decoder holds for the current member
MemberDataWritten ==
  LET prior == FwdData(log.fwd)
      n == data_position(decoder)
  IN  /\ Len(outfile) = prior + n
      /\ \A k \in 1 .. n : outfile[prior + k] = buf_get(decoder, k - 1)
TrailerErrorRun == gh.kind # "unit" /\ result = 3

\* C15: when decode_member has returned the trailer error, every byte decoded
\* from the member is already in the output, in order, after the data of the
\* earlier members, and the status is 2; a test has written nothing and its
\* status is 2 as well.
C15_DataBeforeVerdict ==
  TrailerErrorRun =>
    /\ retval = 2
    /\ IF outfd >= 0 THEN MemberDataWritten ELSE outfile = <<>>

\* a wrong trailer found after one whole member and two bytes of data
C15_Witness ==
  /\ TrailerErrorRun
  /\ outfd >= 0
  /\ Len(log.fwd) = 1
  /\ data_position(decoder) = 2
  /\ outfile = gh.data

\* the same verdict on a test of a member of two bytes
C15_TestReached ==
  TrailerErrorRun /\ outfd < 0 /\ data_position(decoder) = 2 /\ gh.kind = "badtrailer"

\* const bool from_stdin = filenames[i] == "-"
from_stdin == infd = STDIN_FILENO

\* C16: a file that is one empty member is listed and tested with status 2
\* under --empty-error and with status 0 under the default options.
C16_AsStated ==
  Done /\ gh.kind = "multi" /\ gh.sizes = <<<<0, min_member_size>>>> /\ outfd < 0 =>
    IF cl_opts.ignore_empty
    THEN retval = 0 /\ list_status(index, from_stdin) = 0
    ELSE retval = 2 /\ list_status(index, from_stdin) = 2

\* C17: a file of two or more members, one of them empty, named on the
\* command line, is listed, tested and decompressed with status 2, the
\* decompression still writing the data of the members; read from the
\* standard input it is listed, tested and decompressed with status 0.
C17_AsStated ==
  Done /\ gh.kind = "multi" /\ MultiEmptyFile /\ cl_opts = DefaultOpts =>
    IF from_stdin
    THEN retval = 0 /\ list_status(index, TRUE) = 0
    ELSE /\ retval = 2
         /\ list_status(index, FALSE) = 2
         /\ outfd >= 0 => outfile = gh.data

\* the bytes of the member the decoder has flushed, and those it still holds
Flushed(d) == d.partial_data_pos + d.stream_pos
Unflushed(d) == [k \in 1 .. (d.pos - d.stream_pos) |-> buf_get(d, d.stream_pos + k - 1)]
\* the bytes a pass of decode_member decodes
DecodedBy(e) ==
  IF e.kind \in {"lit", "mlit", "shortrep"} THEN 1
  ELSE IF e.kind \in {"match", "rep"} THEN e.len
  ELSE 0
IsPrefix(a, b) == Len(a) <= Len(b) /\ SubSeq(b, 1, Len(a)) = a

\* one pass of decode_member keeps the flush discipline
FlushStep ==
  pc = "symbol" =>
    LET n == Flushed(decoder') - Flushed(decoder)
        before == outfile \o Unflushed(decoder)
        after == outfile' \o Unflushed(decoder')
    IN  /\ 0 <= decoder'.stream_pos /\ decoder'.stream_pos <= decoder'.pos
        /\ decoder'.pos <= decoder'.dictionary_size
        /\ data_position(decoder') = data_position(decoder) + DecodedBy(ev')
        /\ n >= 0
        /\ IF outfd >= 0
           THEN /\ IsPrefix(before, after)
                /\ Len(after) = Len(before) + DecodedBy(ev')
                /\ Len(outfile') = Len(outfile) + n
                /\ decoder'.crc_ =
                     update_buf(decoder.crc_, SubSeq(outfile', Len(outfile) + 1, Len(outfile')))
           ELSE outfile' = outfile
        /\ (pc' # "symbol" /\ result' \in 0 .. 5) => decoder'.stream_pos = decoder'.pos

\* C25: in every pass of decode_member the bytes decoded are appended, in
\* order and once, to what was written or is held for writing; the bytes
\* written by the pass are the bytes added to the CRC; flushing leaves
\* data_position() as it was and 0 <= stream_pos <= pos; and decode_member
\* returns a result in 0..5 only with stream_pos = pos.
C25_FlushDiscipline == [][FlushStep]_vars

\* decode_member has returned after its buffer was flushed more than once,
\* the last time on return
C25_Witness ==
  /\ pc = "done"
  /\ gh.kind = "unit"
  /\ result = 0
  /\ decoder.pos_wrapped
  /\ decoder.pos > 0
  /\ decoder.stream_pos = decoder.pos
  /\ outfd >= 0
  /\ Len(outfile) = data_position(decoder)

\* C26: after the construction of Lzip_index, retval() = 0 iff members() > 0;
\* on failure the member list is empty and retval() is 1 or 2; on success the
\* member blocks tile the start of the file, cdata_size() <= file_size(), and
\* dictionary_size() is the largest of the dictionary sizes of the members.
C26_IndexConsistency ==
  index # NoIndex =>
    LET mv == index.member_vector
        members == Len(mv)
    IN  /\ index.retval_ = 0 <=> members > 0
        /\ index.retval_ # 0 => mv = <<>> /\ index.retval_ \in {1, 2}
        /\ index.retval_ = 0 =>
             /\ mv[1].mblock.pos = 0
             /\ \A k \in 1 .. members - 1 :
                  mv[k + 1].mblock.pos = Block_end(mv[k].mblock)
             /\ cdata_size(index) <= Len(infile)
             /\ \A k \in 1 .. members :
                  /\ mv[k].dictionary_size = get_dictionary_size(infile[mv[k].mblock.pos + 6])
                  /\ mv[k].dictionary_size <= index.dictionary_size_
             /\ \E k \in 1 .. members : mv[k].dictionary_size = index.dictionary_size_

\* a file of members with different dictionary sizes and trailing data has
\* been indexed
C26_Witness ==
  /\ index # NoIndex
  /\ index.retval_ = 0
  /\ Len(index.member_vector) >= 2
  /\ cdata_size(index) < Len(infile)
  /\ \E k \in 1 .. Len(index.member_vector) :
       index.member_vector[k].dictionary_size < index.dictionary_size_

\* a file has been refused by the index
C26_Refused ==
  /\ index # NoIndex
  /\ index.retval_ = 2
  /\ index.member_vector = <<>>
  /\ Len(infile) >= min_member_size

\* members followed by trailing data, listed and tested or decompressed under
\* a setting of ignore_trailing and loose_trailing
TrailingVerdicts ==
  /\ Done
  /\ index # NoIndex
  /\ gh.kind \in {"trail", "corrupt"}
  /\ gh.sizes # <<>>
  /\ Trailing # <<>>
  /\ cl_opts \in TrailingOpts

\* C28, as stated: of a file of valid members followed by trailing bytes
\* that hold no acceptable trailer and header, Lzip_index and decompress()
\* reach the same verdict, 0 or 2, under every setting of ignore_trailing
\* and loose_trailing.
C28_AsStated ==
  TrailingVerdicts => retval \in {0, 2} /\ index.retval_ = retval

\* the member sizes, and the header of the k-th member, of the members that
\* decompress() has finished
RECURSIVE FwdSize(_)
FwdSize(f) == IF f = <<>> THEN 0 ELSE Head(f)[2] + FwdSize(Tail(f))
FwdStart(k) == FwdSize(SubSeq(log.fwd, 1, k - 1))
FwdHeader(k) == SubSeq(infile, FwdStart(k) + 1, FwdStart(k) + Lzip_header_size)
\* decompress() has returned
Decompressed == Done /\ gh.kind # "unit"

\* C30: decompress() returns 0 only if it decoded at least one member with
\* result 0 and every member it decoded had a header with the magic, version
\* 1 and a legal dictionary size and gave result 0; an empty input, an input
\* that ends inside the first header and an input whose first header has a
\* bad magic give 2 under every setting of ignore_trailing and loose_trailing.
C30_ZeroMeansDecoded ==
  Decompressed =>
    /\ retval \in {0, 2}
    /\ retval = 0 =>
         /\ Len(log.fwd) >= 1
         /\ result = 0
         /\ log.hres \in {"end", "trailing_ignored"}
         /\ \A k \in 1 .. Len(log.fwd) :
              LET h == FwdHeader(k)
              IN  /\ Len(h) = Lzip_header_size
                  /\ check_magic(h)
                  /\ check_version(h)
                  /\ isvalid_ds(get_dictionary_size(h[6]))
    /\ Len(infile) < Lzip_header_size => retval = 2
    /\ (Len(infile) >= Lzip_header_size
          /\ SubSeq(infile, 1, 4) # lzip_magic) => retval = 2

\* two members have been decoded and the data after them ignored
C30_Witness ==
  /\ Decompressed
  /\ retval = 0
  /\ Len(log.fwd) = 2
  /\ log.hres = "trailing_ignored"

\* a file whose first header has a bad magic has been refused with
\* ignore_trailing and loose_trailing set
C30_BadMagicRefused ==
  /\ Decompressed
  /\ gh.kind = "head"
  /\ log.hres = "bad_magic"
  /\ cl_opts.ignore_trailing /\ cl_opts.loose_trailing
  /\ retval = 2

\* the file has been tested a second time
TestedTwice == Done /\ log.first # <<>>

C23_FailedTwice ==
  /\ TestedTwice
  /\ retval = 2
  /\ result = 3
  /\ log.first[1] = 2

-----------------------------------------------------------------------------
(* SpecSum: the constructor of Lzip_index on files of whole members, with  *)
(* the stored sizes and every sum kept as 64-bit words                     *)

InitSum ==
  /\ sum \in { [sumIdle EXCEPT !.pc = "scan", !.stored = st, !.k = Len(st),
                               !.pos = TotalSize(st, Len(st))[1]] : st \in SumFiles }
  /\ hdr = hdrIdle
  /\ trl = trlIdle
  /\ batch = batchIdle
  /\ io = ioIdle
  /\ CodecIdle

\* one pass of 'while( pos >= min_member_size )'.  The trailer that ends the
\* file is good, so skip_trailing_data is never called here.
SumScan ==
  /\ sum.pc = "scan"
  /\ LET t == sum.stored[sum.k]
     IN  IF u64_less(sum.pos, t.msize) \/ ~trailer_good(t)
         THEN sum' = [sum EXCEPT !.retval_ = 2, !.pc = "exit"]
         ELSE LET pos == u64_sub(sum.pos, t.msize)
              IN  sum' = [sum EXCEPT
                            !.pos = pos,
                            !.k = @ - 1,
                            !.member_vector =
                               Append(@, Member(u64(0), t.dsize, pos, t.msize,
                                                min_dictionary_size)),
                            !.pc = IF u64_less(pos, u64(min_member_size))
                                   THEN "exit" ELSE "scan"]
  /\ UNCHANGED <<hdr, trl, batch, io, cvars>>

\* 'if( pos != 0 || member_vector.empty() || retval_ != 0 )' and std::reverse
SumReverse ==
  /\ sum.pc = "exit"
  /\ IF sum.pos # u64(0) \/ sum.member_vector = <<>> \/ sum.retval_ # 0
     THEN sum' = [sum EXCEPT !.member_vector = <<>>,
                             !.retval_ = IF @ = 0 THEN 2 ELSE @,
                             !.pc = "done"]
     ELSE sum' = [sum EXCEPT !.member_vector = vector_reverse(@), !.i = 0,
                             !.pc = "ends"]
  /\ UNCHANGED <<hdr, trl, batch, io, cvars>>

\* one pass of 'for( unsigned long i = 0; ; ++i )'
SumEnd ==
  /\ sum.pc = "ends"
  /\ \E e \in Block_end_i64(sum.member_vector[sum.i + 1].dblock) :
       IF e.trap THEN sum' = [sum EXCEPT !.pc = "trapped"]
       ELSE IF i64_negative(e.val)
       THEN sum' = [sum EXCEPT !.member_vector = <<>>, !.retval_ = 2, !.pc = "done"]
       ELSE IF sum.i + 1 >= Len(sum.member_vector)
       THEN sum' = [sum EXCEPT !.pc = "done"]
       ELSE sum' = [sum EXCEPT !.member_vector[sum.i + 2].dblock.pos = e.val,
                               !.i = @ + 1]
  /\ UNCHANGED <<hdr, trl, batch, io, cvars>>

NextSum == SumScan \/ SumReverse \/ SumEnd

SpecSum == InitSum /\ [][NextSum]_vars

\* the exact sum of the stored data sizes of the first k members, as the
\* pair of its low 64 bits and the number of times it passed 2^64
RECURSIVE ExactDataSum(_, _)
ExactDataSum(st, k) ==
  IF k = 0 THEN <<u64(0), 0>>
  ELSE LET t == ExactDataSum(st, k - 1)
           a == u64_adc(t[1], st[k].dsize, 0)
       IN  <<a[1], t[2] + a[2]>>
ExceedsInt64(x) == x[2] > 0 \/ i64_negative(x[1])
DataTooLong ==
  \E k \in 1 .. Len(sum.stored) : ExceedsInt64(ExactDataSum(sum.stored, k))
BlockInRange(b) ==
  /\ ~i64_negative(b.pos)
  /\ ~i64_negative(b.size)
  /\ ~i64_negative(u64_add(b.pos, b.size))

\* C11: when the index is complete, data whose exact size up to some member
\* exceeds 2^63-1 has made the construction fail with retval 2 and no
\* members, and the members of a built index have data blocks with pos >= 0,
\* size >= 0, pos + size <= 2^63-1 and member sizes of at least 36.
C11_AsStated ==
  sum.pc = "done" =>
    /\ DataTooLong => sum.retval_ = 2 /\ sum.member_vector = <<>>
    /\ sum.retval_ = 0 =>
         \A j \in 1 .. Len(sum.member_vector) :
           /\ BlockInRange(sum.member_vector[j].dblock)
           /\ ~u64_less(sum.member_vector[j].mblock.size, u64(min_member_size))

-----------------------------------------------------------------------------
(* SpecBatch: the loops of main and list_files over the file names.  What  *)
(* a file does (it opens or not, the result of compress, decompress or     *)
(* Lzip_index, a failing close) is chosen freely at each file.             *)

BatchMaxFiles == 3
BatchNames == UNION { [1 .. n -> {"-", "f"}] : n \in 1 .. BatchMaxFiles }
\* program_mode with the options -c and -o as given on the command line
BatchModes ==
  { <<"list", FALSE, FALSE>> }
    \cup ({"test", "compress", "decompress"} \X BOOLEAN \X BOOLEAN)

STDOUT_FILENO == STDIN_FILENO + 1
\* the descriptor open_outstream gets for an output file
OutFd == NamedFd + 1

output_mode_no_override(mode, opt_c, opt_o) ==
  IF opt_c THEN "stdout" ELSE IF opt_o THEN "file" ELSE "one_to_one"

\* main: 'if( program_mode == m_test ) to_stdout = false;', the clearing of
\* default_output_filename, to_file and one_to_one
output_mode(mode, opt_c, opt_o) ==
  LET to_stdout == IF mode = "test" THEN FALSE ELSE opt_c
      output_given == IF mode = "test" \/ to_stdout THEN FALSE ELSE opt_o
      to_file == ~to_stdout /\ mode # "test" /\ output_given
      one_to_one == ~to_stdout /\ mode # "test" /\ ~to_file
  IN  IF one_to_one THEN "one_to_one"
      ELSE IF to_file THEN "file"
      ELSE IF to_stdout THEN "stdout"
      ELSE "none"

\* -k and a volume size (-S); 'else volume_size = 0' when not compressing
BatchOpts(mode) ==
  IF mode = "list" THEN {<<FALSE, FALSE>>}
  ELSE IF mode = "compress" THEN BOOLEAN \X BOOLEAN
  ELSE BOOLEAN \X {FALSE}

\* main up to the loop; with -o and -S only one file can be compressed
InitBatch ==
  /\ batch \in UNION { { [batchIdle EXCEPT
                             !.pc = "loop", !.mode = m[1],
                             !.out = IF m[1] = "list" THEN "none"
                                     ELSE output_mode(m[1], m[2], m[3]),
                             !.names = ns,
                             !.keep = o[1], !.volume = o[2],
                             !.results = [k \in 1 .. Len(ns) |-> -1],
                             !.outfd = IF m[1] # "list"
                                          /\ output_mode(m[1], m[2], m[3]) = "stdout"
                                       THEN STDOUT_FILENO ELSE -1] :
                           ns \in BatchNames, o \in BatchOpts(m[1]) } :
                       m \in BatchModes }
  /\ ~(batch.mode = "compress" /\ batch.volume /\ batch.out = "file"
         /\ Len(batch.names) > 1)
  /\ hdr = hdrIdle
  /\ trl = trlIdle
  /\ sum = sumIdle
  /\ io = ioIdle
  /\ CodecIdle

\* the loop goes on to the next name, or ends after the last
next_file(b) ==
  [b EXCEPT !.i = @ + 1,
            !.pc = IF b.i + 1 >= Len(b.names) THEN "finish" ELSE "loop",
            !.ended = IF b.i + 1 >= Len(b.names) THEN "loop_end" ELSE "none"]
\* the file gets the result r
with_result(b, r) ==
  [b EXCEPT !.results[b.i + 1] = r, !.retval = set_retval(b.retval, r)]
\* std::exit( retval ) of cleanup_and_fail
exit_with(b, st) ==
  [b EXCEPT !.i = @ + 1, !.pc = "exited", !.ended = "exit", !.status = st]
\* 'return' from inside the loop
return_with(b, st) ==
  [b EXCEPT !.i = @ + 1, !.pc = "returned", !.ended = "return", !.status = st]

after_result_keep_going(mode, tmp) == "next"

\* if( tmp ) { if( program_mode != m_test ) cleanup_and_fail( retval );
\*             else ++failed_tests; }
after_result(mode, tmp) ==
  IF tmp # 0 THEN (IF mode # "test" THEN "fail" ELSE "count") ELSE "next"

\* cleanup_and_fail: 'if( delete_output_on_interrupt )' the output is closed
\* and the file named output_filename removed; then std::exit( st )
cleanup_and_fail(b, st) ==
  exit_with(IF b.doi
            THEN [b EXCEPT !.doi = FALSE, !.outfd = -1,
                           !.removed_out = @ \cup {<<b.outname, b.outfd>>},
                           !.created = @ \ {b.outname}]
            ELSE b, st)

\* open_outstream has opened the file named n; made tells whether the file
\* is new (it is not when the name is that of a terminal)
opened_output(b, n, made) ==
  [b EXCEPT !.outfd = OutFd, !.outname = n, !.doi = TRUE,
            !.created = IF made THEN @ \cup {n} ELSE @]

\* close_and_set_permissions after close( outfd ) returned 0
closed_output(b) ==
  [b EXCEPT !.outfd = -1, !.doi = FALSE, !.closed_out = @ \cup {b.outname}]

remove_input_always(b, stdin) == ~stdin

\* if( input_filename.size() && !keep_input_files && one_to_one &&
\*     ( program_mode != m_compress || volume_size == 0 ) )
remove_input(b, stdin) ==
  /\ ~stdin
  /\ ~b.keep
  /\ b.out = "one_to_one"
  /\ (b.mode # "compress" \/ ~b.volume)

\* one pass of the loop of main
MainFile ==
  /\ batch.pc = "loop"
  /\ batch.mode # "list"
  /\ LET k == batch.i + 1
         stdin == batch.names[k] = "-"
         one_to_one == batch.out = "one_to_one"
         to_file == batch.out = "file"
         reads == batch.mode \in {"decompress", "test"}
     IN  IF stdin /\ batch.stdin_used THEN batch' = next_file(batch)
         ELSE
           LET b0 == [batch EXCEPT !.stdin_used = @ \/ stdin]
               \* outfd once the input is open and is not a terminal
               b_in == IF one_to_one
                       THEN IF stdin
                            THEN [b0 EXCEPT !.outfd = STDOUT_FILENO, !.outname = -1]
                            ELSE opened_output(b0, k, TRUE)
                       ELSE b0
               \* outfd when compress or decompress is called
               b_out == IF to_file /\ b_in.outfd < 0 THEN opened_output(b_in, 0, TRUE)
                        ELSE b_in
           IN  \E o \in {"open_fail", "tty_in", "outopen_fail", "tty_out",
                         "file_fail", "file_tty", "run"},
                  tmp \in 0 .. 2, close_failed \in BOOLEAN, outclose_failed \in BOOLEAN :
                 \/ /\ o = "open_fail" /\ ~stdin /\ tmp = 0 /\ ~close_failed /\ ~outclose_failed
                    /\ batch' = next_file([with_result(b0, 1) EXCEPT
                                             !.openfail = @ \cup {k}])
                 \/ /\ o = "tty_in" /\ reads /\ tmp = 0 /\ ~close_failed /\ ~outclose_failed
                    /\ batch' = IF batch.mode # "test"
                                THEN cleanup_and_fail(with_result(b0, 2),
                                                      set_retval(b0.retval, 2))
                                ELSE next_file(with_result(b0, 2))
                 \/ /\ o = "outopen_fail" /\ ~stdin /\ one_to_one
                    /\ tmp = 0 /\ ~close_failed /\ ~outclose_failed
                    /\ batch' = next_file(with_result([b0 EXCEPT !.outfd = -1], 1))
                 \/ /\ o = "tty_out" /\ one_to_one /\ batch.mode = "compress"
                    /\ tmp = 0 /\ ~close_failed /\ ~outclose_failed
                    /\ batch' = return_with(
                                  with_result(IF stdin THEN b_in
                                              ELSE opened_output(b0, k, FALSE), 1),
                                  set_retval(b0.retval, 1))
                 \/ /\ o = "file_fail" /\ to_file /\ b_in.outfd < 0
                    /\ tmp = 0 /\ ~close_failed /\ ~outclose_failed
                    /\ batch' = return_with([b0 EXCEPT !.results[k] = 1], 1)
                 \/ /\ o = "file_tty" /\ to_file /\ b_in.outfd < 0 /\ batch.mode = "compress"
                    /\ tmp = 0 /\ ~close_failed /\ ~outclose_failed
                    /\ batch' = return_with([opened_output(b0, 0, FALSE) EXCEPT
                                               !.results[k] = 1], 1)
                 \/ /\ o = "run"
                    /\ outclose_failed => b_out.doi /\ one_to_one /\ tmp = 0 /\ ~close_failed
                    /\ LET t == set_retval(tmp, IF close_failed THEN 1 ELSE 0)
                           b1 == [with_result(b_out, t) EXCEPT
                                    !.read = @ \cup {k},
                                    !.written = IF b_out.outfd >= 0
                                                THEN @ \cup {b_out.outfd} ELSE @,
                                    !.in_closed = IF close_failed THEN @ ELSE @ \cup {k}]
                           act == after_result(batch.mode, t)
                           b2 == IF b1.doi /\ one_to_one THEN closed_output(b1) ELSE b1
                       IN  batch' =
                             IF act = "fail" THEN cleanup_and_fail(b1, b1.retval)
                             ELSE IF act = "count"
                             THEN next_file([b1 EXCEPT !.failed_tests = @ + 1])
                             ELSE IF outclose_failed
                             THEN cleanup_and_fail([b1 EXCEPT !.results[k] = 1], 1)
                             ELSE next_file([b2 EXCEPT
                                    !.removed_in = IF remove_input(b2, stdin)
                                                   THEN @ \cup {k} ELSE @,
                                    !.wrote = IF batch.mode = "test" THEN @
                                              ELSE @ \cup {k}])
  /\ UNCHANGED <<hdr, trl, sum, io, cvars>>

\* main after the loop: the output is closed and retval returned
MainFinish ==
  /\ batch.pc = "finish"
  /\ batch.mode # "list"
  /\ \E close_failed \in BOOLEAN :
       /\ close_failed => batch.outfd >= 0
       /\ batch' =
            IF batch.doi
            THEN IF close_failed
                 THEN [cleanup_and_fail(batch, 1) EXCEPT !.i = batch.i, !.ended = batch.ended,
                                                         !.closing_error = TRUE]
                 ELSE [closed_output(batch) EXCEPT !.pc = "returned",
                                                   !.status = batch.retval]
            ELSE [batch EXCEPT !.pc = "returned", !.closing_error = close_failed,
                               !.retval = set_retval(@, IF close_failed THEN 1 ELSE 0),
                               !.status = set_retval(batch.retval,
                                                     IF close_failed THEN 1 ELSE 0)]
  /\ UNCHANGED <<hdr, trl, sum, io, cvars>>

\* one pass of the loop of list_files
ListFile ==
  /\ batch.pc = "loop"
  /\ batch.mode = "list"
  /\ LET k == batch.i + 1
         stdin == batch.names[k] = "-"
     IN  IF stdin /\ batch.stdin_used THEN batch' = next_file(batch)
         ELSE
           LET b0 == [batch EXCEPT !.stdin_used = @ \/ stdin]
           IN  \E o \in {"open_fail", "index"}, r \in 0 .. 2,
                  empties \in BOOLEAN, stdout_error \in BOOLEAN :
                 \/ /\ o = "open_fail" /\ ~stdin /\ r = 0 /\ ~empties /\ ~stdout_error
                    /\ batch' = next_file([with_result(b0, 1) EXCEPT
                                             !.openfail = @ \cup {k}])
                 \/ /\ o = "index"
                    /\ empties \/ stdout_error => r = 0
                    /\ LET st == list_status([new_index EXCEPT
                                   !.retval_ = r,
                                   !.member_vector =
                                      IF empties
                                      THEN <<Member(0, 0, 0, min_member_size, min_dictionary_size),
                                             Member(0, 0, min_member_size, min_member_size,
                                                    min_dictionary_size)>>
                                      ELSE <<Member(0, 1, 0, min_member_size + 1,
                                                    min_dictionary_size)>>], stdin)
                           b1 == [with_result(b0, st) EXCEPT !.read = @ \cup {k}]
                       IN  batch' =
                             IF r # 0 THEN next_file(b1)
                             ELSE IF stdout_error
                             THEN [b1 EXCEPT !.i = @ + 1, !.pc = "finish",
                                             !.ended = "break", !.closing_error = TRUE]
                             ELSE next_file([b1 EXCEPT !.wrote = @ \cup {k}])
  /\ UNCHANGED <<hdr, trl, sum, io, cvars>>

\* list_files after the loop: the totals, fclose( stdout ) and 'return retval'
ListFinish ==
  /\ batch.pc = "finish"
  /\ batch.mode = "list"
  /\ \E close_failed \in BOOLEAN :
       LET failed == batch.closing_error \/ close_failed
           rv == set_retval(batch.retval, IF failed THEN 1 ELSE 0)
       IN  batch' = [batch EXCEPT !.pc = "returned", !.closing_error = failed,
                                  !.retval = rv, !.status = rv]
  /\ UNCHANGED <<hdr, trl, sum, io, cvars>>

NextBatch == MainFile \/ MainFinish \/ ListFile \/ ListFinish

SpecBatch == InitBatch /\ [][NextBatch]_vars

RECURSIVE MaxResult(_)
MaxResult(rs) == IF rs = <<>> THEN 0 ELSE Max(Max(Head(rs), 0), MaxResult(Tail(rs)))
BatchOver == batch.pc \in {"returned", "exited"}

\* C18, as stated: the status never decreases and the status returned is the
\* maximum of the results of the files.
C18_AsStated ==
  [][/\ batch'.retval >= batch.retval
     /\ batch'.status # -1 =>
          batch'.status >= batch.retval /\ batch'.status = MaxResult(batch'.results)]_vars

\* C18: while main or list_files goes through the file names the status
\* never decreases, and the status returned or passed to exit is the maximum
\* of the results of the files and of 1 when closing the output failed at the
\* end (or the listing could not be written).
C18_ExitStatus ==
  [][/\ batch'.retval >= batch.retval
     /\ batch'.status # -1 =>
          /\ batch'.status >= batch.retval
          /\ batch'.status = Max(MaxResult(batch'.results),
                                 IF batch'.closing_error THEN 1 ELSE 0)]_vars

\* a test of three files whose results are 2, 0 and 1 has returned 2
C18_Witness ==
  /\ batch.pc = "returned"
  /\ batch.mode = "test"
  /\ batch.results = <<2, 0, 1>>
  /\ batch.status = 2
  /\ ~batch.closing_error

\* every file was fine, closing standard output failed, the status is 1
C18_CloseReached ==
  /\ batch.pc = "returned"
  /\ batch.closing_error
  /\ MaxResult(batch.results) = 0
  /\ batch.status = 1

AllVisited == batch.i = Len(batch.names)
\* a file whose compression or decompression result is not 0 ended the run
FailureEndsRun ==
  \A k \in batch.read :
    batch.results[k] # 0 =>
      /\ batch.ended = "exit"
      /\ batch.i = k
      /\ \A j \in (k + 1) .. Len(batch.names) :
           j \notin batch.read /\ j \notin batch.wrote /\ batch.results[j] = -1
\* a file that could not be opened made the status 1 and did not end the run
OpenFailureGoesOn ==
  \A k \in batch.openfail :
    /\ batch.results[k] = 1
    /\ batch.retval >= 1
    /\ batch.ended \in {"exit", "return", "break"} => batch.i > k

\* C19, as stated: listing and testing go through every file name whatever
\* failed before.
C19_AsStated ==
  /\ BatchOver /\ batch.mode \in {"test", "list"} => AllVisited
  /\ batch.mode \in {"compress", "decompress"} => FailureEndsRun
  /\ OpenFailureGoesOn

\* C19: a test goes through every file name whatever failed before, and so
\* does a listing unless writing to standard output failed; in compress and
\* decompress modes a file whose result is not 0 ends the run at once, no later
\* file being read or written; in every mode a file that cannot be opened
\* raises the status to 1 and the loop goes on.
C19_BatchPropagation ==
  /\ BatchOver /\ batch.mode = "test" => AllVisited
  /\ BatchOver /\ batch.mode = "list" => AllVisited \/ batch.ended = "break"
  /\ batch.mode \in {"compress", "decompress"} => FailureEndsRun
  /\ OpenFailureGoesOn

\* a decompression of three files: the first cannot be opened, the second
\* fails, the third is never touched
C19_Witness ==
  /\ batch.pc = "exited"
  /\ batch.mode = "decompress"
  /\ batch.openfail = {1}
  /\ batch.read = {2}
  /\ batch.results = <<1, 2, -1>>
  /\ batch.status = 2

\* a test of three files of which the first two fail
C19_TestReached ==
  /\ batch.pc = "returned"
  /\ batch.mode = "test"
  /\ batch.read = {1, 2, 3}
  /\ batch.results = <<2, 1, 0>>
  /\ batch.failed_tests = 2

-----------------------------------------------------------------------------
(* SpecIO: readblock and writeblock of decoder.cc, one action per call of  *)
(* read() or write(), whose result is chosen freely.  A call that succeeds *)
(* leaves errno as it was.                                                 *)

IoMaxSize == 3       \* the size asked for
IoMaxCalls == 5      \* calls of read() or write() in one run

\* what read() or write() can return when asked for room bytes: 1 .. room
\* bytes, 0, or -1 with errno set
IoResults(room) ==
  { [n |-> n, errno |-> "0"] : n \in 0 .. room }
    \cup { [n |-> -1, errno |-> e] : e \in {"EINTR", "EIO"} }

\* 'int sz = 0; errno = 0;' and the first test of 'while( sz < size )'
InitIO ==
  /\ io \in { [ioIdle EXCEPT !.op = op, !.size = size,
                             !.pc = IF 0 < size THEN "loop" ELSE "done"] :
                op \in {"read", "write"}, size \in 0 .. IoMaxSize }
  /\ hdr = hdrIdle
  /\ trl = trlIdle
  /\ sum = sumIdle
  /\ batch = batchIdle
  /\ CodecIdle

\* the ghost part of a call: its result, the bytes it moved
io_called(s, r) ==
  [s EXCEPT !.calls = @ + 1, !.last = r,
            !.moved = @ + (IF r.n > 0 THEN r.n ELSE 0)]

readblock_step_no_retry(s, r) ==
  IF r.n > 0
  THEN [s EXCEPT !.sz = @ + r.n, !.errno = "0",
                 !.pc = IF s.sz + r.n < s.size THEN "loop" ELSE "done"]
  ELSE IF r.n = 0 THEN [s EXCEPT !.pc = "done"]
  ELSE [s EXCEPT !.errno = r.errno, !.pc = "done"]

\* readblock: the body of the loop after 'n = read( fd, buf + sz, size - sz )'
readblock_step(s, r) ==
  IF r.n > 0
  THEN [s EXCEPT !.sz = @ + r.n, !.errno = "0",
                 !.pc = IF s.sz + r.n < s.size THEN "loop" ELSE "done"]
  ELSE IF r.n = 0 THEN [s EXCEPT !.pc = "done"]
  ELSE IF r.errno # "EINTR" THEN [s EXCEPT !.errno = r.errno, !.pc = "done"]
  ELSE [s EXCEPT !.errno = "0"]

\* writeblock: the body of the loop after 'n = write( fd, buf + sz, size - sz )'
writeblock_step(s, r) ==
  IF r.n > 0
  THEN [s EXCEPT !.sz = @ + r.n, !.errno = "0",
                 !.pc = IF s.sz + r.n < s.size THEN "loop" ELSE "done"]
  ELSE IF r.n < 0 /\ r.errno # "EINTR"
  THEN [s EXCEPT !.errno = r.errno, !.pc = "done"]
  ELSE [s EXCEPT !.errno = "0"]

ReadCall ==
  /\ io.pc = "loop"
  /\ io.op = "read"
  /\ io.calls < IoMaxCalls
  /\ \E r \in IoResults(io.size - io.sz) : io' = readblock_step(io_called(io, r), r)
  /\ UNCHANGED <<hdr, trl, sum, batch, cvars>>

WriteCall ==
  /\ io.pc = "loop"
  /\ io.op = "write"
  /\ io.calls < IoMaxCalls
  /\ \E r \in IoResults(io.size - io.sz) : io' = writeblock_step(io_called(io, r), r)
  /\ UNCHANGED <<hdr, trl, sum, batch, cvars>>

NextIO == ReadCall \/ WriteCall

SpecIO == InitIO /\ [][NextIO]_vars

IoEof == io.last.n = 0
IoFailed == io.last.n < 0 /\ io.last.errno # "EINTR"

\* C20: readblock and writeblock never return right after a partial transfer
\* or an interrupted call; the value returned is the number of bytes moved
\* and is at most size; readblock returns less than size with errno 0 only
\* after read() returned 0, and with errno set only after a failure other
\* than EINTR, whose errno it keeps; writeblock returns less than size only
\* after such a failure.
C20_BlockIO ==
  io.pc = "done" =>
    /\ io.sz = io.moved
    /\ io.sz <= io.size
    /\ io.sz < io.size => io.calls > 0 /\ io.last.n <= 0 /\ io.last.errno # "EINTR"
    /\ io.op = "read" /\ io.sz < io.size /\ io.errno = "0" => IoEof
    /\ io.op = "read" /\ io.sz < io.size /\ io.errno # "0" =>
         IoFailed /\ io.errno = io.last.errno
    /\ io.op = "write" /\ io.sz < io.size => IoFailed /\ io.errno = io.last.errno
    /\ io.sz = io.size => io.errno = "0"

\* readblock has returned 2 of 3 bytes at end of file, after a partial
\* transfer and an interrupted call
C20_Witness ==
  /\ io.pc = "done"
  /\ io.op = "read"
  /\ io.size = 3
  /\ io.sz = 2
  /\ io.calls = 4
  /\ IoEof
  /\ io.errno = "0"

\* writeblock has returned 1 of 3 bytes after write() failed with EIO
C20_WriteFailed ==
  /\ io.pc = "done"
  /\ io.op = "write"
  /\ io.size = 3
  /\ io.sz = 1
  /\ io.calls = 5
  /\ io.errno = "EIO"

-----------------------------------------------------------------------------
(* SpecHeaderDS: Lzip_header::dictionary_size() const on every value of    *)
(* data[5].  An unsigned is 32 bits wide and is kept as a 64-bit word      *)
(* whose two upper limbs are 0.                                            *)

\* '1 << n' for n in 0 .. 31, converted to unsigned
u32_shl_one(n) == IF n < 31 THEN u64(Pow2(n)) ELSE u64_mul(2, u64(Pow2(30)))
\* 'sz / 16' of an unsigned
u32_div16(a) ==
  <<((a[2] % 16) * Limb + a[1]) \div 16, a[2] \div 16, 0, 0>>

dictionary_size_u32_unguarded(data5) ==
  LET sz == u32_shl_one(data5 % 32)
  IN  u64_sub(sz, u64_mul((data5 \div 32) % 8, u32_div16(sz)))

\* unsigned Lzip_header::dictionary_size() const
dictionary_size_u32(data5) ==
  LET sz == u32_shl_one(data5 % 32)
  IN  IF u64_less(u64(min_dictionary_size), sz)
      THEN u64_sub(sz, u64_mul((data5 \div 32) % 8, u32_div16(sz)))
      ELSE sz

InitHeaderDS ==
  /\ hdr \in { [pc |-> "coded", data5 |-> b, got |-> <<>>] : b \in 0 .. 255 }
  /\ trl = trlIdle
  /\ SideIdle
  /\ CodecIdle

HeaderDictionarySize ==
  /\ hdr.pc = "coded"
  /\ hdr' = [hdr EXCEPT !.pc = "decoded", !.got = dictionary_size_u32(hdr.data5)]
  /\ UNCHANGED <<trl, sum, batch, io, cvars>>

NextHeaderDS == HeaderDictionarySize

SpecHeaderDS == InitHeaderDS /\ [][NextHeaderDS]_vars

\* 2^bits - (b5 >> 5) * (2^bits / 16), bits = b5 & 0x1F
CodedValue(b5) ==
  u64_sub(u32_shl_one(b5 % 32), u64_mul(b5 \div 32, u32_div16(u32_shl_one(b5 % 32))))

\* C21: for each of the 256 values of data[5], dictionary_size() returns
\* 2^bits - (b5 >> 5) * (2^bits / 16), where bits = b5 & 0x1F.
C21_AsStated == hdr.pc = "decoded" => hdr.got = CodedValue(hdr.data5)

\* what the code returns: the fraction is taken off above 4 KiB only
C21_Guarded ==
  hdr.pc = "decoded" =>
    hdr.got = IF hdr.data5 % 32 > min_dictionary_bits
              THEN CodedValue(hdr.data5)
              ELSE u32_shl_one(hdr.data5 % 32)

-----------------------------------------------------------------------------
(* SpecPrefix: Lzip_header::check_prefix on headers whose magic bytes are  *)
(* right, zero, or the next magic byte, for every sz up to PrefixMaxN      *)

PrefixMaxN == 7

PrefixHeaders ==
  { <<b1, b2, b3, b4, 1, min_dictionary_bits>> :
      b1 \in {lzip_magic[1], 0, lzip_magic[2]}, b2 \in {lzip_magic[2], 0, lzip_magic[3]},
      b3 \in {lzip_magic[3], 0, lzip_magic[4]}, b4 \in {lzip_magic[4], 0, lzip_magic[1]} }

\* 'for( int i = 0; i < sz && i < 4; ++i )
\*    if( data[i] != lzip_magic[i] ) return false;
\*  return sz > 0;' from i on
RECURSIVE check_prefix_loop(_, _, _)
check_prefix_loop(h, sz, i) ==
  IF i < sz /\ i < 4
  THEN IF h[i + 1] # lzip_magic[i + 1] THEN FALSE
       ELSE check_prefix_loop(h, sz, i + 1)
  ELSE sz > 0

check_prefix_whole_header(h, sz) == check_prefix_loop(h, 4, 0)

\* bool Lzip_header::check_prefix( const int sz ) const, as the loop runs
check_prefix_run(h, sz) == check_prefix_loop(h, sz, 0)

InitPrefix ==
  /\ hdr \in { [pc |-> "header", data |-> h, sz |-> n, res |-> FALSE] :
                 h \in PrefixHeaders, n \in 0 .. PrefixMaxN }
  /\ trl = trlIdle
  /\ SideIdle
  /\ CodecIdle

\* header.check_prefix( sz )
CheckPrefix ==
  /\ hdr.pc = "header"
  /\ hdr' = [hdr EXCEPT !.pc = "checked", !.res = check_prefix_run(hdr.data, hdr.sz)]
  /\ UNCHANGED <<trl, sum, batch, io, cvars>>

NextPrefix == CheckPrefix

SpecPrefix == InitPrefix /\ [][NextPrefix]_vars

\* the first min(n, 4) bytes of the header are the first min(n, 4) magic bytes
PrefixMatches(h, n) == SubSeq(h, 1, Min(n, 4)) = SubSeq(lzip_magic, 1, Min(n, 4))

\* C22, as stated: check_prefix(n) is true exactly when the first min(n, 4)
\* bytes of the header are the first min(n, 4) magic bytes, for every n >= 0.
C22_AsStated ==
  hdr.pc = "checked" => (hdr.res <=> PrefixMatches(hdr.data, hdr.sz))

\* C22: check_prefix(n) is true exactly when n > 0 and the first min(n, 4)
\* bytes of the header are the first min(n, 4) magic bytes; check_prefix(0)
\* is false.
C22_PrefixIff ==
  hdr.pc = "checked" =>
    /\ hdr.res <=> (hdr.sz > 0 /\ PrefixMatches(hdr.data, hdr.sz))
    /\ hdr.res = check_prefix(hdr.data, hdr.sz)

\* two bytes of a header that starts "LZ" and goes on wrongly are a prefix
C22_Witness ==
  /\ hdr.pc = "checked"
  /\ hdr.sz = 2
  /\ hdr.data[1] = lzip_magic[1]
  /\ hdr.data[2] = lzip_magic[2]
  /\ hdr.data[3] # lzip_magic[3]
  /\ hdr.res

\* no byte at all is not a prefix
C22_ZeroReached ==
  /\ hdr.pc = "checked"
  /\ hdr.sz = 0
  /\ check_magic(hdr.data)
  /\ ~hdr.res

-----------------------------------------------------------------------------
(* Properties of SpecBatch: what main does to the files                    *)

\* C23, in main: in test mode outfd stays -1 whatever -c and -o say, nothing
\* is written to a descriptor, no output file is opened or removed and no
\* input file is removed.
C23_MainFrame ==
  batch.mode = "test" =>
    /\ batch.out = "none"
    /\ batch.outfd = -1
    /\ ~batch.doi
    /\ batch.created = {} /\ batch.closed_out = {} /\ batch.removed_out = {}
    /\ batch.removed_in = {}
    /\ batch.written = {} /\ batch.wrote = {}

\* three named files have been tested without -k, the second failed
C23_MainTested ==
  /\ batch.pc = "returned"
  /\ batch.mode = "test"
  /\ ~batch.keep
  /\ batch.names = <<"f", "f", "f">>
  /\ batch.results = <<0, 2, 0>>

\* the run was ended by cleanup_and_fail
Failed == batch.pc = "exited"

\* C29: an input file is removed only in one-to-one compression or
\* decompression, without -k and without a volume size when compressing, and
\* only after its result was 0, its descriptor was closed without error and
\* its output file was closed successfully; after a failure that ends the run
\* no output file that was opened and not closed successfully remains, the
\* input of the failing file is kept, and what cleanup_and_fail removes is
\* never the standard output.
C29_SafeRemoval ==
  /\ \A k \in batch.removed_in :
       /\ batch.mode \in {"compress", "decompress"}
       /\ batch.out = "one_to_one"
       /\ ~batch.keep
       /\ ~(batch.mode = "compress" /\ batch.volume)
       /\ batch.names[k] # "-"
       /\ batch.results[k] = 0
       /\ k \in batch.in_closed
       /\ k \in batch.closed_out
       /\ k \in batch.created
  /\ Failed =>
       /\ ~batch.doi
       /\ batch.created \subseteq batch.closed_out
       /\ batch.ended = "exit" => batch.i \notin batch.removed_in
  /\ \A r \in batch.removed_out :
       r[1] >= 0 /\ r[2] = OutFd /\ r[1] \notin batch.closed_out

\* of two files decompressed one to one the first was replaced by its output
\* and the second failed: its output was removed, its input kept
C29_Witness ==
  /\ Failed
  /\ batch.mode = "decompress"
  /\ batch.out = "one_to_one"
  /\ batch.names = <<"f", "f">>
  /\ batch.results = <<0, 2>>
  /\ batch.removed_in = {1}
  /\ batch.created = {1}
  /\ batch.removed_out = {<<2, OutFd>>}

\* standard input compressed to standard output failed after a file: nothing
\* is removed but the first input
C29_StdoutKept ==
  /\ Failed
  /\ batch.mode = "compress"
  /\ batch.out = "one_to_one"
  /\ batch.names = <<"f", "-">>
  /\ batch.results = <<0, 1>>
  /\ batch.removed_out = {}
  /\ STDOUT_FILENO \in batch.written

\* a decompression to the file given with -o failed at the second file: the
\* output file was removed
C29_FileRemoved ==
  /\ Failed
  /\ batch.out = "file"
  /\ batch.results = <<0, 2>>
  /\ batch.removed_out = {<<0, OutFd>>}
  /\ batch.created = {}
  /\ batch.removed_in = {}

-----------------------------------------------------------------------------
(* SpecState: the State of decode_member under every sequence of symbols.  *)
(* loc.st is the state; ev records the last symbol, the symbol before it   *)
(* and what is_char_set_char returned for a literal.                       *)

StateMaxSymbols == 8

NoSymbol == [kind |-> "none", prev |-> "none", plain |-> TRUE, len |-> 0]

InitState ==
  /\ hdr = hdrIdle
  /\ trl = trlIdle
  /\ SideIdle
  /\ infile = <<>>
  /\ infd = -1
  /\ cl_opts = DefaultOpts
  /\ outfd = -1
  /\ outfile = <<>>
  /\ rdec = [pos |-> 0, mstart |-> 0]
  /\ decoder = NoDecoder
  /\ loc = NewLoc
  /\ pc = "state"
  /\ first_member = TRUE
  /\ result = -1
  /\ retval = 0
  /\ index = NoIndex
  /\ ev = NoSymbol
  /\ gh = Ghost("idle", <<>>, -1)
  /\ log = NoLog

\* the record of one more symbol
symbol_event(e, kind, plain) ==
  [kind |-> kind, prev |-> e.kind, plain |-> plain, len |-> e.len + 1]

\* a literal: 'if( state.is_char_set_char() ) ... decode_tree8 ... else
\* ... decode_matched'
StateLiteral ==
  /\ pc = "state"
  /\ ev.len < StateMaxSymbols
  /\ loc' = [loc EXCEPT !.st = set_char(loc.st)]
  /\ ev' = symbol_event(ev, "literal", is_char_set_char(loc.st))
  /\ UNCHANGED <<hdr, trl, sum, batch, io, infile, infd, cl_opts, outfd, outfile, rdec, decoder,
                 pc, first_member, result, retval, index, gh, log>>

\* a match: state.set_match()
StateMatch ==
  /\ pc = "state"
  /\ ev.len < StateMaxSymbols
  /\ loc' = [loc EXCEPT !.st = set_match(loc.st)]
  /\ ev' = symbol_event(ev, "match", FALSE)
  /\ UNCHANGED <<hdr, trl, sum, batch, io, infile, infd, cl_opts, outfd, outfile, rdec, decoder,
                 pc, first_member, result, retval, index, gh, log>>

\* a repeated match: state.set_rep()
StateRep ==
  /\ pc = "state"
  /\ ev.len < StateMaxSymbols
  /\ loc' = [loc EXCEPT !.st = set_rep(loc.st)]
  /\ ev' = symbol_event(ev, "rep", FALSE)
  /\ UNCHANGED <<hdr, trl, sum, batch, io, infile, infd, cl_opts, outfd, outfile, rdec, decoder,
                 pc, first_member, result, retval, index, gh, log>>

\* a short repeated match: state.set_short_rep()
StateShortRep ==
  /\ pc = "state"
  /\ ev.len < StateMaxSymbols
  /\ loc' = [loc EXCEPT !.st = set_short_rep(loc.st)]
  /\ ev' = symbol_event(ev, "short_rep", FALSE)
  /\ UNCHANGED <<hdr, trl, sum, batch, io, infile, infd, cl_opts, outfd, outfile, rdec, decoder,
                 pc, first_member, result, retval, index, gh, log>>

NextState == StateLiteral \/ StateMatch \/ StateRep \/ StateShortRep

SpecState == InitState /\ [][NextState]_vars

AfterLiteralOrNone(kind) == kind \in {"none", "literal"}

\* C24: after any sequence of symbols from state 0 the state is in 0..11 and
\* is below 7 exactly when the last symbol was a literal or there was no
\* symbol; for a literal is_char_set_char returns whether the state was below
\* 7 before it, that is whether the symbol before was a literal or there was
\* none, and the plain literal tree is used exactly then.
C24_StateFSM ==
  /\ loc.st \in 0 .. 11
  /\ is_char(loc.st) <=> AfterLiteralOrNone(ev.kind)
  /\ ev.kind = "literal" => (ev.plain <=> AfterLiteralOrNone(ev.prev))

\* a literal after a match after literals was decoded with the matched tree,
\* and the state is below 7 again
C24_Witness ==
  /\ ev.kind = "literal"
  /\ ev.prev = "match"
  /\ ~ev.plain
  /\ loc.st = 4
  /\ ev.len >= 3

\* the highest state: a repeated match after a match
C24_TopReached ==
  /\ loc.st = 11
  /\ ev.kind = "rep"
  /\ ev.prev \in {"match", "rep", "short_rep"}

-----------------------------------------------------------------------------
(* SpecSkip: the loops of Lzip_index::skip_trailing_data on files of any   *)
(* length.  The positions are 64-bit words; the buffer indices are ints.   *)
(* The bytes of the file are not kept: what a candidate position holds is  *)
(* chosen at each pass of the inner loop among the cases that the code     *)
(* distinguishes.  Reads succeed.                                          *)

SkipMaxPasses == 3     \* blocks read in a run
\* 2^56 + 26 and 2^63 - 1
SkipBigPos == { <<26, 0, 0, 256>>, <<Limb - 1, Limb - 1, Limb - 1, Limb \div 2 - 1>> }
\* the shortest file, a file that fills the buffer, and one of three blocks
\* and 10 bytes
SkipPos ==
  { u64(min_member_size), u64(buffer_size), u64(3 * block_size + 10) } \cup SkipBigPos
\* the default options, and -a with --loose-trailing
SkipOpts == { DefaultOpts,
              [DefaultOpts EXCEPT !.ignore_trailing = FALSE, !.loose_trailing = TRUE] }

skipIdle(pos, cl) ==
  [pc |-> "enter", pos |-> pos, cl |-> cl, bsize |-> 0, search_size |-> 0,
   rd_size |-> 0, ipos |-> u64(0), i |-> 0, max_msb |-> 0, passes |-> 0,
   ok |-> FALSE, retval_ |-> 0, end |-> "none"]

InitSkip ==
  /\ trl \in { skipIdle(pos, cl) : pos \in SkipPos, cl \in SkipOpts }
  /\ hdr = hdrIdle
  /\ SideIdle
  /\ CodecIdle

\* the locals are gone when the function returns
skip_return(t, ok, pos, rv, end) ==
  [skipIdle(pos, t.cl) EXCEPT !.pc = "returned", !.ok = ok, !.retval_ = rv,
                              !.end = end, !.passes = t.passes]

\* a first buffer that is not extended by a block
first_bsize_short(pos) == pos[1] % block_size

\* int bsize = pos % block_size;
\* if( bsize <= buffer_size - block_size ) bsize += block_size;
first_bsize(pos) ==
  LET b0 == pos[1] % block_size
  IN  IF b0 <= buffer_size - block_size THEN b0 + block_size ELSE b0

\* lzip_index.cc lines 85-93: the entry of skip_trailing_data
SkipEnter ==
  /\ trl.pc = "enter"
  /\ trl' = IF u64_less(trl.pos, u64(min_member_size))
            THEN skip_return(trl, FALSE, trl.pos, trl.retval_, "short")
            ELSE LET bsize == first_bsize(trl.pos)
                 IN  [trl EXCEPT !.pc = "read", !.bsize = bsize,
                                 !.search_size = bsize, !.rd_size = bsize,
                                 !.ipos = u64_sub(trl.pos, u64(bsize))]
  /\ UNCHANGED <<hdr, sum, batch, io, cvars>>

\* lzip_index.cc lines 97-100: seek_read, max_msb and the start of the for
SkipRead ==
  /\ trl.pc = "read"
  /\ trl' = [trl EXCEPT !.pc = "scan", !.passes = trl.passes + 1,
                        !.max_msb = u64_add(trl.ipos, u64(trl.search_size))[4] \div 256,
                        !.i = trl.search_size]
  /\ UNCHANGED <<hdr, sum, batch, io, cvars>>

\* ipos + i
candidate_end(t) == u64_add(t.ipos, u64(t.i))

\* the member sizes tried at a candidate: the smallest member, and the
\* member that starts the file
SkipMemberSizes(t) ==
  IF u64_less(candidate_end(t), u64(min_member_size)) THEN {}
  ELSE {u64(min_member_size), candidate_end(t)}

\* lzip_index.cc lines 100-130: one pass of the for loop
SkipCandidate ==
  /\ trl.pc = "scan"
  /\ trl.i >= Lzip_trailer_size
  /\ LET t == trl
         avail == t.bsize - t.i
         full_h2 == avail >= Lzip_header_size
         next == [t EXCEPT !.i = t.i - 1]
     IN  \/ \* buffer[i-1] > max_msb
            /\ t.max_msb < 255
            /\ trl' = next
         \/ \* member_size == 0: skip trailing zeros
            \E k \in {0, 1, t.i - Lzip_trailer_size} \cap (0 .. t.i - Lzip_trailer_size) :
              trl' = [t EXCEPT !.i = t.i - k - 1]
         \/ \* member_size > ipos + i, or an inconsistent trailer, or a bad header
            trl' = next
         \/ \* a good trailer and header followed by the start of a header
            /\ SkipMemberSizes(t) # {}
            /\ avail > 0
            /\ trl' = skip_return(t, FALSE, t.pos, 2, "truncated")
         \/ \* followed by a corrupt header
            /\ SkipMemberSizes(t) # {}
            /\ ~t.cl.loose_trailing /\ full_h2
            /\ trl' = skip_return(t, FALSE, t.pos, 2, "corrupt")
         \/ \* followed by trailing data that is not ignored
            /\ SkipMemberSizes(t) # {}
            /\ ~t.cl.ignore_trailing
            /\ trl' = skip_return(t, FALSE, t.pos, 2, "trailing")
         \/ \* good member
            /\ t.cl.ignore_trailing
            /\ \E msize \in SkipMemberSizes(t) :
                 trl' = skip_return(t, TRUE, u64_sub(candidate_end(t), msize),
                                    t.retval_, "member")
  /\ UNCHANGED <<hdr, sum, batch, io, cvars>>

\* lzip_index.cc lines 132-140: the end of the for loop
SkipNextBlock ==
  /\ trl.pc = "scan"
  /\ trl.i < Lzip_trailer_size
  /\ trl.ipos = u64(0) \/ trl.passes < SkipMaxPasses
  /\ trl' = IF trl.ipos = u64(0)
            THEN skip_return(trl, FALSE, trl.pos, 2, "bad_trailer")
            ELSE [trl EXCEPT !.pc = "read", !.bsize = buffer_size,
                             !.search_size = buffer_size - Lzip_header_size,
                             !.rd_size = block_size,
                             !.ipos = u64_sub(trl.ipos, u64(block_size))]
  /\ UNCHANGED <<hdr, sum, batch, io, cvars>>

NextSkip == SkipEnter \/ SkipRead \/ SkipCandidate \/ SkipNextBlock

SpecSkip == InitSkip /\ [][NextSkip]_vars /\ WF_vars(NextSkip)

u64_leq(a, b) == ~u64_less(b, a)

\* ipos is a multiple of the block size and the buffer is the file from ipos
SkipAligned ==
  trl.pc \in {"read", "scan"} =>
    /\ trl.ipos[1] % block_size = 0
    /\ u64_leq(trl.ipos, trl.pos)
    /\ 0 < trl.bsize /\ trl.bsize <= buffer_size
    /\ trl.search_size <= trl.bsize
    /\ u64_adc(trl.ipos, u64(trl.bsize), 0)[2] = 0
    /\ u64_leq(u64_add(trl.ipos, u64(trl.bsize)), trl.pos)
\* seek_read reads rd_size bytes at ipos, all of them in the file, into the
\* start of the buffer
SkipReadsInside ==
  trl.pc = "read" =>
    /\ 0 < trl.rd_size /\ trl.rd_size <= trl.bsize
    /\ u64_leq(u64_add(trl.ipos, u64(trl.rd_size)), trl.pos)
    /\ trl.passes > 0 => trl.rd_size + (buffer_size - block_size) = trl.bsize
\* the buffer indices of a pass of the for loop: buffer[i-1], the trailer at
\* i-20, buffer[i-9] while i > 20, and the header after the trailer as far as
\* the buffer holds it; the header of the member is read inside the file
SkipIndicesInside ==
  (trl.pc = "scan" /\ trl.i >= Lzip_trailer_size) =>
    /\ trl.i <= trl.search_size
    /\ 0 <= trl.i - Lzip_trailer_size
    /\ trl.i - 1 < trl.bsize
    /\ trl.i > Lzip_trailer_size => 0 <= trl.i - 9
    /\ trl.i + Min(trl.bsize - trl.i, Lzip_header_size) <= trl.bsize
    /\ \A msize \in SkipMemberSizes(trl) :
         /\ u64_leq(msize, candidate_end(trl))
         /\ u64_leq(u64_add(u64_sub(candidate_end(trl), msize), u64(Lzip_header_size)),
                    trl.pos)
\* memcpy( buffer + rd_size, buffer, buffer_size - rd_size ) copies bytes the
\* buffer holds, and ipos -= rd_size does not wrap
SkipShiftSafe ==
  (trl.pc = "scan" /\ trl.i < Lzip_trailer_size /\ trl.ipos # u64(0)) =>
    /\ buffer_size - block_size <= trl.bsize
    /\ u64_leq(u64(block_size), trl.ipos)
\* the returns
SkipReturns ==
  trl.pc = "returned" =>
    /\ trl.end # "short"
    /\ trl.end = "bad_trailer" => ~trl.ok /\ trl.retval_ = 2
    /\ trl.end \in {"truncated", "corrupt", "trailing"} => ~trl.ok /\ trl.retval_ = 2
    /\ trl.ok <=> trl.end = "member"
SkipInv ==
  SkipAligned /\ SkipReadsInside /\ SkipIndicesInside /\ SkipShiftSafe /\ SkipReturns

\* the candidate positions go down: the position ipos + i never grows, and
\* it shrinks in every pass of the for loop that does not return
SkipDescends ==
  /\ (trl.pc = "scan" /\ trl'.pc = "scan") =>
       u64_less(candidate_end(trl'), candidate_end(trl))
  /\ (trl.pc = "scan" /\ trl'.pc = "read") =>
       /\ trl.i = Lzip_trailer_size - 1
       /\ u64_add(trl'.ipos, u64(trl'.search_size)) = candidate_end(trl)
  /\ (trl.pc = "read" /\ trl'.pc = "scan") =>
       /\ trl'.ipos = trl.ipos
       /\ trl'.i = trl.search_size

\* the runs that end within the blocks read
SkipFits ==
  u64_less(trl.pos, u64(SkipMaxPasses * block_size + buffer_size - block_size + 1))

\* C27: skip_trailing_data terminates for every file length from 36 to
\* 2^63 - 1: ipos stays a multiple of 16384 and never wraps below 0, the reads
\* are inside the file, the buffer indices inside the buffer, the candidate
\* trailer ends are met at most once and in descending order, and a search
\* that finds no acceptable trailer and header returns false with retval 2.
C27_Terminates ==
  /\ []SkipInv
  /\ [][SkipDescends]_vars
  /\ (trl.pc = "enter" /\ SkipFits) ~> (trl.pc = "returned")

\* a search through three blocks has ended at the start of the file with
\* 'Bad trailer'
C27_Witness ==
  /\ trl.pc = "returned"
  /\ trl.end = "bad_trailer"
  /\ trl.passes > 2
  /\ ~trl.ok
  /\ trl.retval_ = 2

\* a member has been found in the second block of a file of 2^63 - 1 bytes
C27_BigReached ==
  /\ trl.pc = "returned"
  /\ trl.end = "member"
  /\ trl.passes = 2
  /\ trl.pos[4] >= Limb \div 4

====
